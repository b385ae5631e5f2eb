------------------------ MODULE MCMessageTransform ------------------------
(* MessageTransform on small bounds: see the .cfg file.                    *)
EXTENDS MessageTransform
=============================================================================
