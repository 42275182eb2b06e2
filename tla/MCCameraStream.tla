--------------------------- MODULE MCCameraStream ---------------------------
(* Two or three viewers for a camera that keeps one of them.                *)
EXTENDS CameraStream
=============================================================================
