----------------------------- MODULE MCServers ------------------------------
(* Servers with few clients, and fewer children, threads and descriptors    *)
(* than clients, so that clients wait and things are used again.            *)
EXTENDS Servers

CONSTANTS u1, u2

MCBytes == {"a", "b", "c", "A", "B", "C", "D", "\n"}
MCText == <<"a", "b">>
MCUpper == [b \in MCBytes |-> CASE b = "a" -> "A" [] b = "b" -> "B" [] b = "c" -> "C" [] OTHER -> b]
MCMessages == (u1 :> << <<"a", "b">>, <<"c">> >>) @@ (u2 :> << <<"b">>, <<"D">> >>)
MCResponse == <<"A", "B">>
MCLines == UNION {[1 .. n -> {"a", "b", "\n"}] : n \in 0 .. 3}
Symmetry == Permutations(Clients) \cup Permutations(Children)
=============================================================================
