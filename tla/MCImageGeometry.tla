---------------------------- MODULE MCImageGeometry ----------------------------
(* Instances of ImageGeometry for TLC.                                         *)
EXTENDS ImageGeometryProperties

=============================================================================
