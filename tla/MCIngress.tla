------------------------------ MODULE MCIngress ------------------------------
(* The receive pipeline with one pool slot, one heap buffer allowed (two    *)
(* addresses, so that the limit is what keeps a second one away), a queue   *)
(* that grows once, two I/O threads and one handler.                        *)
EXTENDS Ingress

MCMsg == Slots \cup Heap
=============================================================================
