--------------------------- MODULE MCMonitorScan ---------------------------
(***************************************************************************)
(* The settings the runs of MonitorScan choose from.                       *)
(***************************************************************************)
EXTENDS MonitorScan

OneSetting == {[threshold |-> 1, cursor |-> "shown", automatic |-> "on"]}

OnAndOff ==
  {[threshold |-> 1, cursor |-> "shown", automatic |-> automatic] :
     automatic \in {"on", "off"}}

\* Settings that differ from the first in one field; the threshold stays, which
\* UpdateSettings treats like the cursor.
OneFieldApart ==
  OnAndOff \cup {[threshold |-> 1, cursor |-> "hidden", automatic |-> "on"]}
=============================================================================
