-------------------------- MODULE MCNotificacaoFila --------------------------
(* NotificacaoFila on a small instance: the rows do not depend on each     *)
(* other, so one is enough.                                                *)
EXTENDS NotificacaoFila
=============================================================================
