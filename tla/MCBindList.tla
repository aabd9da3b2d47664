------------------------------ MODULE MCBindList ------------------------------
(* A symbol with up to four things bound to it, for TLC.  Things and      *)
(* addresses are only compared.                                            *)
EXTENDS BindList, TLC

Alike == Permutations(Things) \union Permutations(Addrs)
===============================================================================
