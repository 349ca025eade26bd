---------------------------- MODULE MCAssessment ------------------------------
(* What the manager answers in the model-checked instance of Assessment. *)
EXTENDS Assessment

MCAgents  == {"local", "nas"}
MCClassOf == [a \in MCAgents |-> IF a = "local" THEN "local_device" ELSE "local_network"]
MCBackups == {"oldest", "first", "second", "manual", "update"}
MCDomains == {"mqtt"}
MCRestoreTests == {[result |-> "successful", scope |-> "full"]}

Copies(agents, size) == [a \in agents |-> size]

Raw(id, pos, made) ==
  [id |-> id, pos |-> pos, made |-> made, automatic |-> TRUE, update |-> FALSE, valid |-> TRUE,
   failed |-> FALSE, copies |-> Copies(MCAgents, 100), size |-> 100,
   ha |-> TRUE, db |-> TRUE, parts |-> {"ssl", "addons"}]

Oldest  == Raw("oldest", 5, -2)
First   == Raw("first", 1, -1)
Shrunk  == [Raw("second", 2, 0) EXCEPT !.copies = Copies(MCAgents, 40)]
Partial == [Raw("second", 2, 0) EXCEPT !.failed = TRUE, !.copies = Copies({"local"}, -1),
                                       !.parts = {"ssl"}]
Manual  == [Raw("manual", 3, 1) EXCEPT !.automatic = FALSE, !.ha = None,
                                       !.copies = Copies({"local"}, 90)]
Update  == [Raw("update", 4, 1) EXCEPT !.update = TRUE]
Broken1 == [Raw("first", 0, -1) EXCEPT !.valid = FALSE]

Quiet  == [event |-> "completed", eventAt |-> 0, attempt |-> 0, success |-> 0,
           next |-> 9, writing |-> FALSE]
Failed == [event |-> "failed", eventAt |-> 1, attempt |-> 1, success |-> 0,
           next |-> None, writing |-> FALSE]
Late   == [event |-> "in_progress", eventAt |-> 0, attempt |-> 1, success |-> 0,
           next |-> 1, writing |-> FALSE]

Steady == [rate |-> 100, failures |-> 0, resolved |-> 3]
Shaky  == [rate |-> 50, failures |-> 2, resolved |-> 4]

Answer(backups, errors, native, history) ==
  [backups |-> backups, errors |-> errors, native |-> native, history |-> history]

MCReadings ==
  {Answer({}, {}, Quiet, Steady),
   Answer({First, Broken1}, {}, Quiet, Steady),
   Answer({Oldest, First, Shrunk, Update}, {"nas"}, Late, Steady),
   Answer({First, Partial, Manual}, {}, Failed, Shaky)}
=============================================================================
