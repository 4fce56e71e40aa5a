---------------------------- MODULE SearchDialog ----------------------------
(***************************************************************************)
(* The search for friends (gui/search.cc).  The user's text goes to every  *)
(* registration server the program is registered at; each id that a server *)
(* finds is looked up at all of them, and the first answer makes a row of  *)
(* the table.  Answers come back whenever the servers please, also after   *)
(* the user has started another search; servers come and go meanwhile.     *)
(***************************************************************************)
EXTENDS Integers, Sequences

CONSTANTS Servers,     \* regclients
          Ids, Texts,  \* the users there are, and what may be searched for
          Matches,     \* the users each text fits
          NoText,      \* the text of no search
          MaxSearches  \* bound: how many searches are started

VARIABLES
  shown,       \* the dialog is visible
  searchtext,  \* the text of the present search
  reqids,      \* the ids it has found, each with its row, or -1 without one
  resultids,   \* the rows of the table
  registered,  \* the servers that know this program now
  searches,    \* searches not answered yet: who was asked, what, and by which
  started,     \* how many searches were started
  lookups,     \* lookups not answered yet: who was asked, and for whom
  friends      \* the table of friends

table == <<searchtext, reqids, resultids>>
vars == <<shown, table, registered, searches, started, lookups, friends>>

Init ==
  /\ shown = FALSE /\ searchtext = NoText /\ reqids = [id \in {} |-> -1] /\ resultids = <<>>
  /\ registered = {} /\ searches = {} /\ started = 0 /\ lookups = {} /\ friends = {}

\* Registration with a server succeeds or is lost.
Registered(cli) ==
  /\ registered' = IF cli \in registered THEN registered \ {cli} ELSE registered \cup {cli}
  /\ UNCHANGED <<shown, table, searches, started, lookups, friends>>

\* present, or the search button: the table is emptied, and whoever can be asked is.
StartSearch(text) ==
  /\ started < MaxSearches
  /\ shown' = TRUE
  /\ searchtext' = text /\ reqids' = [id \in {} |-> -1] /\ resultids' = <<>>
  /\ searches' = searches \cup (registered \X {text} \X {started})
  /\ started' = started + 1
  /\ UNCHANGED <<registered, lookups, friends>>

\* New ids have no row yet.
Joined(new) == [id \in DOMAIN reqids \cup new |-> IF id \in new THEN -1 ELSE reqids[id]]

\* Slip: the text that was searched for is not compared.
AnyAnswer(text, ids) ==
  LET new == ids \ DOMAIN reqids
  IN /\ reqids' = Joined(new)
     /\ lookups' = lookups \cup (registered \X new)

\* searchDone: an answer to an older search is ignored.
SearchDone(text, ids) ==
  LET new == IF text = searchtext THEN ids \ DOMAIN reqids ELSE {}
  IN /\ reqids' = Joined(new)
     /\ lookups' = lookups \cup (registered \X new)

\* Any of the users that fit may be known to a server.
SearchAnswer(s, ids) ==
  /\ s \in searches /\ ids \subseteq Matches[s[2]]
  /\ searches' = searches \ {s}
  /\ SearchDone(s[2], ids)
  /\ UNCHANGED <<shown, searchtext, resultids, registered, started, friends>>

\* lookupDone: an id of this search that has no row yet.
NeedsRow(id) == id \in DOMAIN reqids /\ reqids[id] < 0

LookupDone(cli, id) ==
  /\ <<cli, id>> \in lookups
  /\ lookups' = lookups \ {<<cli, id>>}
  /\ IF NeedsRow(id)
     THEN /\ reqids' = [reqids EXCEPT ![id] = Len(resultids)]
          /\ resultids' = Append(resultids, id)
     ELSE UNCHANGED <<reqids, resultids>>
  /\ UNCHANGED <<shown, searchtext, registered, searches, started, friends>>

\* The services look their peers up with the same clients, and the dialog hears of it.
FriendLookup(cli, id) ==
  /\ id \in friends /\ cli \in registered
  /\ lookups' = lookups \cup {<<cli, id>>}
  /\ UNCHANGED <<shown, table, registered, searches, started, friends>>

\* addPeer: the row's user becomes a friend, unless he is one.
AddPeer(row) ==
  /\ shown /\ row \in DOMAIN resultids
  /\ shown' = FALSE
  /\ friends' = friends \cup {resultids[row]}
  /\ UNCHANGED <<table, registered, searches, started, lookups>>

\* A closed dialog keeps its table and goes on hearing answers.
CloseEvent ==
  /\ shown /\ shown' = FALSE
  /\ UNCHANGED <<table, registered, searches, started, lookups, friends>>

Next ==
  \/ \E cli \in Servers : Registered(cli)
  \/ \E text \in Texts : StartSearch(text)
  \/ \E s \in searches : \E ids \in SUBSET Matches[s[2]] : SearchAnswer(s, ids)
  \/ \E cli \in Servers, id \in Ids : LookupDone(cli, id) \/ FriendLookup(cli, id)
  \/ \E row \in DOMAIN resultids : AddPeer(row)
  \/ CloseEvent

Spec == Init /\ [][Next]_vars

\* Whatever order the answers of old and new searches come in, the table shows
\* users that fit the present text, and its rows and the ids agree: the user of
\* a row knows his row, "Q_ASSERT(resultids[idrow] == id)" (search.cc:167), and
\* has no other.
ResultsTrue ==
  /\ searchtext # NoText => DOMAIN reqids \subseteq Matches[searchtext]
  /\ DOMAIN resultids = {reqids[id] + 1 : id \in {i \in DOMAIN reqids : reqids[i] >= 0}}
  /\ \A row \in DOMAIN resultids :
       resultids[row] \in DOMAIN reqids /\ reqids[resultids[row]] = row - 1
=============================================================================
