----------------------------- MODULE MCUgenGraph ------------------------------
(* A window with a subpatch, for TLC: a source, two objects and a sink in  *)
(* the root window, one object in the subpatch; the wirings of the root    *)
(* window with at most MaxWires connections, loops through the subpatch    *)
(* among them, and five of the subpatch, one of them with a loop.          *)
EXTENDS UgenMeaning

CONSTANTS MaxWires, OddSizes, OddInnerSizes, Sizes, Switches

TheBoxes == {"src", "mul", "mix", "sub", "in", "obj", "out"}
TheWindows == {"root", "inner"}

ABox(class, window, nin, nout, port, sub) ==
  [class |-> class, window |-> window, nin |-> nin, nout |-> nout, port |-> port,
   sub |-> sub]

TheBox ==
  [b \in TheBoxes |->
     CASE b = "src" -> ABox("ugen", "root", 0, 1, 0, "")
       [] b = "mul" -> ABox("ugen", "root", 1, 1, 0, "")
       [] b = "mix" -> ABox("ugen", "root", 2, 0, 0, "")
       [] b = "sub" -> ABox("canvas", "root", 1, 1, 0, "inner")
       [] b = "in"  -> ABox("inlet", "inner", 0, 1, 1, "")
       [] b = "obj" -> ABox("ugen", "inner", 1, 1, 0, "")
       [] b = "out" -> ABox("outlet", "inner", 1, 0, 1, "")]

Wire(from, to, in) == [from |-> from, out |-> 1, to |-> to, in |-> in]

RootWires ==
  {Wire("src", x, 1) : x \in {"mul", "mix", "sub"}} \cup
  {Wire("mul", "sub", 1), Wire("mul", "mix", 1), Wire("mul", "mix", 2)} \cup
  {Wire("sub", "mul", 1), Wire("sub", "mix", 1), Wire("sub", "mix", 2)}

Through == {Wire("in", "out", 1)}
Via     == {Wire("in", "obj", 1), Wire("obj", "out", 1)}
Looped  == {Wire("obj", "obj", 1), Wire("obj", "out", 1)}
InnerWirings == {{}, Through, Via, Through \cup Via, Through \cup Looped}

TheWirings ==
  {r \cup i : r \in UNION {kSubset(k, RootWires) : k \in 0..MaxWires},
              i \in InnerWirings}

Plain == [block |-> FALSE, size |-> 0, switched |-> FALSE, on |-> TRUE]
Block(n) == [Plain EXCEPT !.block = TRUE, !.size = n]
Switch(on) == [block |-> TRUE, size |-> 0, switched |-> TRUE, on |-> on]

(* A root window of odd size is tried with a subpatch of another size.     *)
TheSettings ==
  {[w \in TheWindows |-> IF w = "root" THEN Plain ELSE s] :
     s \in {Plain} \cup {Block(n) : n \in Sizes} \cup {Switch(on) : on \in Switches}}
  \cup
  {[w \in TheWindows |-> IF w = "root" THEN Block(n) ELSE s] :
     n \in OddSizes, s \in {Switch(TRUE)} \cup {Block(k) : k \in OddInnerSizes}}
===============================================================================
