------------------------- MODULE MCReleaseDownload -------------------------
(* ReleaseDownload for TLC; the values are in the .cfg file.               *)
EXTENDS ReleaseDownload
============================================================================
