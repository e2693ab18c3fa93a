--------------------------- MODULE MCUpstreamClient ---------------------------
(* Instances of UpstreamClient for TLC.                                    *)
EXTENDS UpstreamClient
=============================================================================
