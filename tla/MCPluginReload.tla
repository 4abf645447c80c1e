--------------------------- MODULE MCPluginReload ---------------------------
(* Two plugins; the first may take the name of the second.                 *)
EXTENDS PluginReload
CONSTANTS a, b, x
(* What comes with the first change of a file makes tools by a function.   *)
MCFactories == {m \in Instances : m.try = 1}
MCNamesOf == a :> {a, x} @@ b :> {x}
=============================================================================
