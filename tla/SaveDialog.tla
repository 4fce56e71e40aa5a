----------------------------- MODULE SaveDialog -----------------------------
(***************************************************************************)
(* The list of downloads (gui/save.cc) and what the settings keep of it.   *)
(*                                                                         *)
(* Each item owns an Update until it is finished.  The list is written to  *)
(* the settings as an array after each change, and read again when the     *)
(* program is restarted and the dialog first shown.  The program may stop  *)
(* between any two steps.                                                  *)
(***************************************************************************)
EXTENDS Naturals, Sequences, FiniteSets, SequencesExt

CONSTANTS Downloads,    \* the files that the user may save, each once
          MaxRestarts   \* bound: how often the program is started again

Slots == 1..Cardinality(Downloads)

VARIABLES
  dialog,    \* dlg, the one SaveDialog, has been made
  items,     \* its items, in order
  act,       \* the Update of each download: "none", "running", "done"
  asking,    \* the SaveAsDialog of each file: "none", "open", "done", "gone"
  stored,    \* the array in the settings: its size and slots
  wanted,    \* what the user has saved and not removed, in order
  tidied,    \* the user has removed a download
  restarts,  \* the restarts so far
  failed     \* what stopped the program for good

program == <<dialog, items, act, asking>>
vars == <<program, stored, wanted, tidied, restarts, failed>>

Slot == [file : Downloads \cup {"none"}, final : BOOLEAN]

TypeOK ==
  /\ dialog \in BOOLEAN /\ items \in Seq(Downloads)
  /\ act \in [Downloads -> {"none", "running", "done"}]
  /\ asking \in [Downloads -> {"none", "open", "done", "gone"}]
  /\ stored.size \in 0..Cardinality(Downloads) /\ stored.slots \in [Slots -> Slot]
  /\ wanted \in Seq(Downloads) /\ tidied \in BOOLEAN
  /\ restarts \in 0..MaxRestarts /\ failed \subseteq {"dlg"}

Init ==
  /\ dialog = FALSE /\ items = <<>> /\ act = [d \in Downloads |-> "none"]
  /\ asking = [d \in Downloads |-> "none"]
  /\ stored = [size |-> 0, slots |-> [i \in Slots |-> [file |-> "none", final |-> FALSE]]]
  /\ wanted = <<>> /\ tidied = FALSE /\ restarts = 0 /\ failed = {}

IsDone(a, d) == a[d] # "running"

\* SaveDialog::writestate: a slot's "final" is set, but never taken away.
WriteState(its, a) ==
  [size |-> Len(its),
   slots |-> [i \in Slots |->
     IF i <= Len(its)
     THEN [file |-> its[i], final |-> IsDone(a, its[i]) \/ stored.slots[i].final]
     ELSE stored.slots[i]]]

\* The dialog that is there, or the one that init makes from the settings.  An
\* Update may be at its end before start returns; an old one that is then finds
\* no dialog: dlg is set when the constructor is through.
Made(quick) ==
  LET old == [i \in 1..stored.size |-> stored.slots[i]]
      unfinished == {old[i].file : i \in {j \in DOMAIN old : ~old[j].final}}
      finished == {old[i].file : i \in {j \in DOMAIN old : old[j].final}}
  IN  IF dialog THEN [items |-> items, act |-> act, failed |-> failed]
      ELSE [items |-> [i \in DOMAIN old |-> old[i].file],
            act |-> [d \in Downloads |->
                       IF d \in unfinished \ quick THEN "running"
                       ELSE IF d \in finished THEN "done" ELSE "none"],
            failed |-> IF quick \cap unfinished # {} THEN failed \cup {"dlg"} ELSE failed]

\* SaveDialog::present, from the window's menu.
Present ==
  /\ ~dialog /\ dialog' = TRUE
  /\ \E quick \in SUBSET Downloads :
       /\ items' = Made(quick).items /\ act' = Made(quick).act /\ failed' = Made(quick).failed
  /\ UNCHANGED <<asking, stored, wanted, tidied, restarts>>

SaveAs(d) ==
  /\ asking[d] = "none" /\ asking' = [asking EXCEPT ![d] = "open"]
  /\ UNCHANGED <<dialog, items, act, stored, wanted, tidied, restarts, failed>>

\* SaveDialog::save, where the Updates in quick are at their end at once.
Save(d, quick) ==
  /\ dialog' = TRUE /\ failed' = Made(quick).failed
  /\ IF failed' # {} THEN UNCHANGED <<items, act, stored, wanted>>
     ELSE /\ items' = Append(Made(quick).items, d)
          /\ act' = [Made(quick).act EXCEPT ![d] = IF d \in quick THEN "done" ELSE "running"]
          /\ stored' = WriteState(items', act')
          /\ wanted' = Append(wanted, d)

\* Slip: each click saves.
SavesAgain(d, accepted, quick) ==
  /\ asking[d] \in {"open", "done"} /\ asking' = [asking EXCEPT ![d] = "done"]
  /\ Len(items) < Cardinality(Downloads)
  /\ IF ~accepted THEN UNCHANGED <<dialog, items, act, stored, wanted, failed>>
     ELSE Save(d, quick)
  /\ UNCHANGED <<tidied, restarts>>

\* SaveAsDialog::gotFinished, which may come more than once.
GotFinished(d, accepted, quick) ==
  /\ asking[d] \in {"open", "done"} /\ asking' = [asking EXCEPT ![d] = "done"]
  /\ IF asking[d] = "done" \/ ~accepted
     THEN UNCHANGED <<dialog, items, act, stored, wanted, failed>>
     ELSE Save(d, quick)
  /\ UNCHANGED <<tidied, restarts>>

SaveAsDeleted(d) ==
  /\ asking[d] = "done" /\ asking' = [asking EXCEPT ![d] = "gone"]
  /\ UNCHANGED <<dialog, items, act, stored, wanted, tidied, restarts, failed>>

\* SaveItem::updateStatus with a status that is an end.
UpdateStatus(d) ==
  /\ act[d] = "running" /\ act' = [act EXCEPT ![d] = "done"]
  /\ stored' = WriteState(items, act')
  /\ UNCHANGED <<dialog, items, asking, wanted, tidied, restarts, failed>>

\* What a list keeps when the items in gone are taken out, in their order.
Rest(list, gone) == {i \in DOMAIN list : list[i] \notin gone}

Keeps(kept, list, gone) ==
  \E order \in Bijection(1 .. Cardinality(Rest(list, gone)), Rest(list, gone)) :
    /\ \A i, j \in DOMAIN order : i < j => order[i] < order[j]
    /\ kept = [i \in 1 .. Cardinality(Rest(list, gone)) |-> list[order[i]]]

Without(gone) ==
  /\ Keeps(items', items, gone)
  /\ act' = [d \in Downloads |-> IF d \in gone THEN "none" ELSE act[d]]
  /\ stored' = WriteState(items', act')
  /\ Keeps(wanted', wanted, gone)
  /\ tidied' = TRUE
  /\ UNCHANGED <<dialog, asking, restarts, failed>>

CancelPressed(d) == d \in Range(items) /\ Without({d})
Cleanup == dialog /\ Without({d \in Range(items) : IsDone(act, d)})

\* The program ends or crashes, and is started again.
Restart ==
  /\ restarts < MaxRestarts /\ restarts' = restarts + 1
  /\ dialog' = FALSE /\ items' = <<>> /\ act' = [d \in Downloads |-> "none"]
  /\ asking' = [d \in Downloads |-> IF asking[d] = "open" THEN "none"
                                    ELSE IF asking[d] = "done" THEN "gone" ELSE asking[d]]
  /\ UNCHANGED <<stored, wanted, tidied, failed>>

Next ==
  /\ failed = {}
  /\ \/ Present \/ Cleanup \/ Restart
     \/ \E d \in Downloads : \/ SaveAs(d) \/ SaveAsDeleted(d) \/ UpdateStatus(d)
                             \/ CancelPressed(d)
                             \/ \E a \in BOOLEAN, quick \in SUBSET Downloads : GotFinished(d, a, quick)

Spec == Init /\ [][Next]_vars

-----------------------------------------------------------------------------
\* Over any restarts the settings list what the user has saved and not removed,
\* in order and once each, and so does the dialog.
DownloadsKept ==
  /\ TypeOK /\ IsInjective(wanted)
  /\ wanted = [i \in 1..stored.size |-> stored.slots[i].file]
  /\ dialog /\ failed = {} => items = wanted

\* As long as the user removes no download, the settings tell a finished
\* download from one to be resumed.
FinalMeansDone ==
  dialog /\ failed = {} /\ ~tidied =>
    \A i \in DOMAIN items : stored.slots[i].final = IsDone(act, items[i])

\* The downloads, and which of them are finished, survive restarts.
DownloadsRemembered == DownloadsKept /\ FinalMeansDone
=============================================================================
