--------------------------- MODULE MCHttpExchange ---------------------------
(* Headers of up to three units where two are allowed, bodies of up to three *)
(* where two are allowed, cut in every way.                                  *)
EXTENDS HttpExchange
=============================================================================
