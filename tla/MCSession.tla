----------------------------- MODULE MCSession -----------------------------
(* Session about one name.  Cut short, "75" reads as 7 and "7" as itself.  *)
EXTENDS Session

MCNames == {"ap.heading_command"}
MCReals == {0, 7, 75}
MCCuts == [v \in MCReals |-> CASE v = 75 -> {7, 75} [] OTHER -> {v}]
=============================================================================
