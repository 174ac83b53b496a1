---------------------------- MODULE MCPhotoLibrary ----------------------------
(* Instances of PhotoLibrary for TLC.                                        *)
EXTENDS PhotoLibraryProperties

=============================================================================
