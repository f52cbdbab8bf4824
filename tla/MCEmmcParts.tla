---------------------------- MODULE MCEmmcParts ----------------------------
(* Sizes in units of 4 MB, gaps and inherent partitions as in the headers.   *)
EXTENDS EmmcParts

P(n, s) == [name |-> n, size |-> s]

MCInherent == <<P("bootloader", 1), P("reserved", 16), P("cache", 0), P("env", 2)>>

\* The last partition has the rest; in the second tree "data" does not fit on
\* the medium, is cut and is the last.
MCDtbs == {<<P("logo", 2), P("cache", 8), P("system", 10), P("data", W - 1)>>,
           <<P("logo", 2), P("cache", 12), P("system", 10), P("data", 60), P("extra", W - 1)>>}
=============================================================================
