--------------------------- MODULE MCFilaMiniaturas ---------------------------
(* FilaMiniaturas on a small instance: more documents and more calls than  *)
(* the limit, so that a job waits for another.                             *)
EXTENDS FilaMiniaturas
=============================================================================
