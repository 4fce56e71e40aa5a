----------------------------- MODULE ChatDialog -----------------------------
(***************************************************************************)
(* A chat of two users (gui/chat.cc): the dialog that opens it, the dialog *)
(* that the other's ChatServer makes for it, and the stream between them.  *)
(*                                                                         *)
(* A dialog whose window is closed shuts its side of the stream down and   *)
(* stays, hidden, until the other side has done so too.  The stream keeps  *)
(* the order of messages and either delivers them or fails.                *)
(***************************************************************************)
EXTENDS Naturals, Sequences, FiniteSets, SequencesExt

CONSTANTS MaxSaid   \* bound: messages that the user at each end sends

Ends == {"opener", "server"}

ASSUME ChatAssumption == MaxSaid \in [Ends -> Nat]

Other(e) == IF e = "opener" THEN "server" ELSE "opener"
EOF == [kind |-> "eof", n |-> 0]
Messages == [kind : {"text", "files"}, n : Nat]

VARIABLES
  dlg,      \* the dialog of each end and its stream; shut: has written its end
  wire,     \* what each end has written and the other has not read
  broken,   \* the connection has failed
  log,      \* the entries of each dialog's log, "me" or "you"
  history,  \* the lines of each dialog's ChatHistory
  scanner,  \* the ChatScanner of each dialog: "none", "scanning", "ending"
  failed    \* the assertions that failed: the program is at its end

vars == <<dlg, wire, broken, log, history, scanner, failed>>

Entry == [by : {"me", "you"}, msg : Messages]

TypeOK ==
  /\ dlg \in [Ends -> [at : {"none", "here", "doomed", "gone"},
                       window : {"none", "shown", "closed", "rejected"},
                       readonly : BOOLEAN, shut : BOOLEAN, ended : BOOLEAN,
                       link : {"none", "linking", "up", "failed"}]]
  /\ wire \in [Ends -> Seq(Messages \cup {EOF})] /\ broken \in BOOLEAN
  /\ log \in [Ends -> Seq(Entry)] /\ history \in [Ends -> Seq(Entry)]
  /\ scanner \in [Ends -> {"none", "scanning", "ending"}]
  /\ failed \subseteq {"text", "files"}

NoDialog == [at |-> "none", window |-> "none", readonly |-> FALSE, shut |-> FALSE,
             ended |-> FALSE, link |-> "none"]

Init ==
  /\ dlg = [e \in Ends |-> NoDialog]
  /\ wire = [e \in Ends |-> <<>>] /\ broken = FALSE
  /\ log = [e \in Ends |-> <<>>] /\ history = [e \in Ends |-> <<>>]
  /\ scanner = [e \in Ends |-> "none"] /\ failed = {}

Here(e) == dlg[e].at \in {"here", "doomed"}
Shown(e) == dlg[e].window = "shown"
Active(e) == ~dlg[e].readonly

\* The elements of s that are in S, in their order.
Picked(s, S) ==
  LET picked[k \in 0..Len(s)] ==
        IF k = 0 THEN <<>>
        ELSE IF s[k] \in S THEN Append(picked[k - 1], s[k]) ELSE picked[k - 1]
  IN  picked[Len(s)]

Said(e) == Picked(log[e], [by : {"me"}, msg : Messages])
Heard(e) == Picked(log[e], [by : {"you"}, msg : Messages])
TextEntry == [by : {"me", "you"}, msg : [kind : {"text"}, n : Nat]]

-----------------------------------------------------------------------------
(* The connection. *)

\* ChatDialog::open: nothing can be said before the link is up.
Open ==
  /\ dlg["opener"].at = "none"
  /\ dlg' = [dlg EXCEPT !["opener"] =
       [NoDialog EXCEPT !.at = "here", !.window = "shown", !.readonly = TRUE, !.link = "linking"]]
  /\ UNCHANGED <<wire, broken, log, history, scanner, failed>>

\* ChatServer::incoming
Incoming ==
  /\ dlg["server"].at = "none" /\ dlg["opener"].link = "linking" /\ ~broken
  /\ dlg' = [dlg EXCEPT !["server"] =
       [NoDialog EXCEPT !.at = "here", !.window = "shown", !.link = "up"]]
  /\ UNCHANGED <<wire, broken, log, history, scanner, failed>>

Connected ==
  /\ Here("opener") /\ dlg["opener"].link = "linking" /\ dlg["server"].at # "none"
  /\ dlg' = [dlg EXCEPT !["opener"].link = "up", !["opener"].readonly = FALSE]
  /\ UNCHANGED <<wire, broken, log, history, scanner, failed>>

Breaks ==
  /\ ~broken /\ dlg["opener"].link # "none" /\ broken' = TRUE
  /\ UNCHANGED <<dlg, wire, log, history, scanner, failed>>

\* The stream fails with the connection, or as the opener's stream is gone.
StreamError(e) ==
  /\ broken \/ dlg["opener"].at = "gone"
  /\ Here(e) /\ dlg[e].link \in {"linking", "up"}
  /\ dlg' = [dlg EXCEPT ![e].link = "failed", ![e].readonly = TRUE,
                        ![e].at = IF Shown(e) THEN @ ELSE "doomed"]
  /\ UNCHANGED <<wire, broken, log, history, scanner, failed>>

-----------------------------------------------------------------------------
(* What the users do. *)

\* Texts are kept in the history, files are not.
InsertHistoryLine(e, entry) ==
  history' = IF entry.msg.kind = "text" THEN [history EXCEPT ![e] = Append(@, entry)]
             ELSE history

\* A message goes into the user's own log and on the stream, if that takes it.
Say(e, kind) ==
  LET msg == [kind |-> kind, n |-> Len(Said(e)) + 1]
      entry == [by |-> "me", msg |-> msg]
      taken == dlg[e].link = "up" /\ ~dlg[e].shut
  IN  /\ log' = [log EXCEPT ![e] = Append(@, entry)]
      /\ wire' = IF taken THEN [wire EXCEPT ![e] = Append(@, msg)] ELSE wire
      /\ failed' = IF taken THEN failed ELSE failed \cup {kind}
      /\ IF taken THEN InsertHistoryLine(e, entry) ELSE UNCHANGED history

SendTextLine(e) ==
  /\ Here(e) /\ Shown(e) /\ Active(e) /\ Len(Said(e)) < MaxSaid[e]
  /\ Say(e, "text")
  /\ UNCHANGED <<dlg, broken, scanner>>

\* dropEvent: a ChatScanner takes the files.  One at a time here.
DropEvent(e) ==
  /\ Here(e) /\ Shown(e) /\ Active(e) /\ scanner[e] = "none"
  /\ scanner' = [scanner EXCEPT ![e] = "scanning"]
  /\ UNCHANGED <<dlg, wire, broken, log, history, failed>>

\* The scanner is done, and may be so while it waits for its deletion.
SendFiles(e) ==
  /\ scanner[e] # "none" /\ Len(Said(e)) < MaxSaid[e]
  /\ scanner' = [scanner EXCEPT ![e] = "none"]
  /\ IF Active(e) THEN Say(e, "files") ELSE UNCHANGED <<wire, log, history, failed>>
  /\ UNCHANGED <<dlg, broken>>

ScanCanceled(e) ==
  /\ scanner[e] = "ending" /\ scanner' = [scanner EXCEPT ![e] = "none"]
  /\ UNCHANGED <<dlg, wire, broken, log, history, failed>>

\* The window goes, and with its result the scanner.
Hide(e) == scanner' = [scanner EXCEPT ![e] = IF @ = "scanning" THEN "ending" ELSE @]

\* Slip: the dialog goes away at once.
GoesAtOnce(e) ==
  /\ Here(e) /\ Shown(e) /\ Hide(e)
  /\ dlg' = [dlg EXCEPT ![e].window = "closed", ![e].shut = TRUE, ![e].at = "doomed"]
  /\ wire' = [wire EXCEPT ![e] = Append(@, EOF)]
  /\ UNCHANGED <<broken, log, history, failed>>

\* closeEvent: the stream may or may not call itself connected while it is linking.
CloseEvent(e) ==
  /\ Here(e) /\ Shown(e) /\ Hide(e)
  /\ \E connected \in BOOLEAN :
       /\ dlg[e].link = "up" => connected
       /\ dlg[e].link = "failed" => ~connected
       /\ dlg' = [dlg EXCEPT ![e].window = "closed", ![e].shut = connected,
                    ![e].at = IF ~connected \/ dlg[e].ended THEN "doomed" ELSE @]
       /\ wire' = IF connected THEN [wire EXCEPT ![e] = Append(@, EOF)] ELSE wire
  /\ UNCHANGED <<broken, log, history, failed>>

\* The Escape key hides a QDialog without a close event.
Reject(e) ==
  /\ Here(e) /\ Shown(e) /\ Hide(e)
  /\ dlg' = [dlg EXCEPT ![e].window = "rejected"]
  /\ UNCHANGED <<wire, broken, log, history, failed>>

-----------------------------------------------------------------------------
(* What the stream brings. *)

\* Slip: no history is kept once the window is closed.
HiddenForgets(e) ==
  /\ Here(e) /\ dlg[e].link = "up" /\ wire[Other(e)] # <<>>
  /\ wire' = [wire EXCEPT ![Other(e)] = Tail(@)]
  /\ LET msg == Head(wire[Other(e)])
         entry == [by |-> "you", msg |-> msg]
     IN  /\ dlg' = IF msg = EOF THEN [dlg EXCEPT ![e].ended = TRUE, ![e].readonly = TRUE,
                                        ![e].at = IF Shown(e) THEN @ ELSE "doomed"] ELSE dlg
         /\ log' = IF msg = EOF THEN log ELSE [log EXCEPT ![e] = Append(@, entry)]
         /\ history' = IF msg.kind = "text" /\ Shown(e)
                       THEN [history EXCEPT ![e] = Append(@, entry)] ELSE history
  /\ UNCHANGED <<broken, scanner, failed>>

\* readyReadMessage, for one message or the end of the stream.
ReadyReadMessage(e) ==
  /\ Here(e) /\ dlg[e].link = "up" /\ wire[Other(e)] # <<>>
  /\ wire' = [wire EXCEPT ![Other(e)] = Tail(@)]
  /\ LET msg == Head(wire[Other(e)])
         entry == [by |-> "you", msg |-> msg]
     IN  IF msg = EOF
         THEN /\ dlg' = [dlg EXCEPT ![e].ended = TRUE, ![e].readonly = TRUE,
                                    ![e].at = IF Shown(e) THEN @ ELSE "doomed"]
              /\ UNCHANGED <<log, history>>
         ELSE /\ log' = [log EXCEPT ![e] = Append(@, entry)]
              /\ InsertHistoryLine(e, entry)
              /\ UNCHANGED dlg
  /\ UNCHANGED <<broken, scanner, failed>>

\* The opener's stream is its dialog's child and goes with it: what is still on
\* its way may be lost then.  The server's stream stays.
DeferredDelete(e) ==
  /\ dlg[e].at = "doomed"
  /\ dlg' = [dlg EXCEPT ![e].at = "gone"] /\ scanner' = [scanner EXCEPT ![e] = "none"]
  /\ \/ (e = "server" \/ dlg[e].shut) /\ UNCHANGED wire
     \/ e = "opener" /\ wire' = [wire EXCEPT ![e] = <<>>]
  /\ UNCHANGED <<broken, log, history, failed>>

Step(e) ==
  \/ SendTextLine(e) \/ DropEvent(e) \/ SendFiles(e) \/ ScanCanceled(e) \/ CloseEvent(e)
  \/ Reject(e) \/ ReadyReadMessage(e) \/ DeferredDelete(e) \/ StreamError(e)

Next == failed = {} /\ (Open \/ Incoming \/ Connected \/ Breaks \/ \E e \in Ends : Step(e))

\* The stream delivers or fails, and the event loop deletes what is to be deleted.
Fairness ==
  /\ WF_vars(failed = {} /\ (Incoming \/ Connected))
  /\ \A e \in Ends : /\ WF_vars(failed = {} /\ ReadyReadMessage(e))
                     /\ WF_vars(failed = {} /\ StreamError(e))
                     /\ WF_vars(failed = {} /\ DeferredDelete(e))

Spec == Init /\ [][Next]_vars /\ Fairness

-----------------------------------------------------------------------------
Told(e) == [k \in DOMAIN Said(e) |-> Said(e)[k].msg]
Got(e) == [k \in DOMAIN Heard(e) |-> Heard(e)[k].msg]

\* Each dialog shows what the partner's shows, in order, and all of it once it
\* says that the partner has closed the chat; the history has the same lines.
\* A text that is typed is never refused by the stream.
ConversationAgrees ==
  /\ TypeOK /\ "text" \notin failed
  /\ \A e \in Ends : /\ IsPrefix(Got(e), Told(Other(e)))
                     /\ dlg[e].ended /\ failed = {} => Got(e) = Told(Other(e))
                     /\ history[e] = Picked(log[e], TextEntry)

\* chat.cc:123: data sent before the window is closed gets there, unless the
\* connection fails or the partner closes the window as well.
ClosedChatIsHeard ==
  \A e \in Ends : (dlg[e].shut /\ dlg[e].link = "up" /\ ~dlg[e].ended) ~>
    (Got(Other(e)) = Told(e) \/ broken \/ failed # {} \/ dlg[Other(e)].window = "closed")

\* When both windows are closed no dialog stays behind, hidden.
ClosedChatsEnd ==
  (\A e \in Ends : dlg[e].window = "closed") ~> (failed # {} \/ \A e \in Ends : dlg[e].at = "gone")
\* Closing a window loses nothing and leaves nothing behind.
ChatsClose == ClosedChatIsHeard /\ ClosedChatsEnd
=============================================================================
