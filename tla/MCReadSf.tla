------------------------------ MODULE MCReadSf ------------------------------
(* Small instances of ReadSf.  "short" fits in the fifo, "long" wraps it,  *)
(* "gone" cannot be opened, "cut" ends one byte before a whole tick.       *)
EXTENDS ReadSf

FileBpfs == [f \in Files |-> IF f = "wide" THEN 4 ELSE 2]
FileLens == [f \in Files |-> CASE f = "short" -> 6 [] f = "long" -> 20
                               [] f = "wide" -> 8 [] f = "cut" -> 7
                               [] OTHER -> 0]
(* The header of "long" announces less than there is, the others more.     *)
FileLimits == [f \in Files |-> CASE f = "short" -> 9 [] f = "long" -> 18
                                 [] f = "wide" -> 10 [] f = "cut" -> 9
                                 [] OTHER -> 0]
===============================================================================
