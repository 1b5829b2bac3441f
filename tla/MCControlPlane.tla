--------------------------- MODULE MCControlPlane ---------------------------
(* Small instances of ControlPlane for TLC.                                *)
EXTENDS ControlPlane

\* Two versions of one context and another context.
MCOldRows == {[name |-> 1, version |-> 1], [name |-> 1, version |-> 2], [name |-> 2, version |-> 1]}

\* One name in two namespaces.
MCMapRows ==
  {[name |-> "same", namespace |-> "default", path |-> "a"],
   [name |-> "same", namespace |-> "other", path |-> "b"]}
=============================================================================
