------------------------ MODULE MCPagamentoCalendario ------------------------
(* PagamentoCalendario on a small instance: two installments a day apart,  *)
(* three days, one request at a time beside the two sweeps.                *)
EXTENDS PagamentoCalendario
=============================================================================
