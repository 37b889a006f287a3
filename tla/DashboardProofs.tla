--------------------------- MODULE DashboardProofs ---------------------------
(***************************************************************************)
(* Proofs about Dashboard, for any settings that are tried, any users, any *)
(* number of changes of the queue and of refreshes there is room for.      *)
(***************************************************************************)
EXTENDS Dashboard, WellFoundedInduction, TLAPS

Loads == {At("none"), At("ok"), At("failed"), At("rejected")}
           \cup {Sent(t) : t \in Users \cup {None}} \cup {Back(d) : d \in Data}

\* What TypeOK says of everything but the loads.
RestOK ==
    /\ settings \in {s \in Environments : Accepted(s)}
    /\ version \in Versions
    /\ session \in Users \cup {None}
    /\ page \in {"config", "session", "verifying", "dashboard", "message", "login"}
    /\ listening \in BOOLEAN /\ inProgress \in BOOLEAN
    /\ token \in Users \cup {None}
    /\ table \in [Tables -> [data : Data, error : BOOLEAN, shown : Data]]
    /\ summary \in [metrics : [Tables -> Data],
                    connection : {"connecting", "live", "partial", "error"}]

TypeInv ==
    /\ load \in [Refreshes -> [Tables -> Loads]]
    /\ RestOK

\* At most one refresh is under way, and only on the dashboard; its two loads
\* are under way until it ends.
OneRefresh ==
    /\ \A i \in Refreshes : Idle(i) \/ \A x \in Tables : load[i][x].at # "none"
    /\ \A i, j \in Refreshes : ~Idle(i) /\ ~Idle(j) => i = j
    /\ inProgress <=> \E i \in Refreshes : ~Idle(i)
    /\ inProgress => page = "dashboard"

\* What a table shows came before what it holds, and that before what arrives.
Newer(d, e) == e # None => d # None /\ d >= e

InOrder ==
    page = "dashboard" =>
        \A x \in Tables :
            /\ Newer(table[x].data, table[x].shown)
            /\ Newer(version, table[x].data)
            /\ \A i \in Refreshes :
                 load[i][x].at = "back" =>
                     /\ Newer(version, load[i][x].data)
                     /\ load[i][x].data # None => Newer(load[i][x].data, table[x].data)

\* A table that was rendered shows what it holds, and says if that is old.
Rendered ==
    \A i \in Refreshes, x \in Tables :
        load[i][x].at \in {"ok", "failed"} =>
            table[x].shown = table[x].data /\ (table[x].error <=> load[i][x].at = "failed")

\* A page that was opened begins without rows.
Opening ==
    page \in {"config", "session", "verifying"} => \A x \in Tables : table[x] = NoTable

IInv ==
    TypeInv /\ OneRefresh /\ InOrder /\ Rendered /\ Opening /\ SummaryMatchesTables

-----------------------------------------------------------------------------
\* What a load can be.
LEMMA LoadFields ==
    ASSUME NEW l \in Loads
    PROVE  /\ l.at \in {"none", "sent", "back", "ok", "failed", "rejected"}
           /\ l.at = "back" => l.data \in Data
BY DEF Loads, At, Sent, Back

\* A load by where it is.
LEMMA LoadPlaces ==
    /\ \A place \in {"none", "ok", "failed", "rejected"} :
         At(place) \in Loads /\ At(place).at = place
    /\ \A t \in Users \cup {None} : Sent(t) \in Loads /\ Sent(t).at = "sent"
    /\ \A d \in Data : Back(d) \in Loads /\ Back(d).at = "back" /\ Back(d).data = d
BY DEF Loads, At, Sent, Back

LEMMA NoTableFields ==
    /\ NoTable \in [data : Data, error : BOOLEAN, shown : Data]
    /\ NoTable.data = None /\ NoTable.error = FALSE /\ NoTable.shown = None
BY DEF NoTable, Data

LEMMA SummaryTypes ==
    /\ NoSummary \in [metrics : [Tables -> Data],
                      connection : {"connecting", "live", "partial", "error"}]
    /\ \A ok : Connection(ok) \in {"live", "partial", "error"}
BY DEF NoSummary, Data, Connection

-----------------------------------------------------------------------------
\* A page that is opened or left has nothing under way.
LEMMA FreshKeeps ==
    ASSUME RestOK', NEW p \in {"config", "login"}, Fresh(p)
    PROVE  IInv'
<1>1. \A i \in Refreshes, x \in Tables : load'[i][x] = At("none")
  BY DEF Fresh
<1>2. TypeInv'
  BY LoadPlaces DEF Fresh, TypeInv
<1>3. OneRefresh'
  BY <1>1, LoadPlaces DEF Fresh, OneRefresh, Idle
<1>4. Rendered'
  BY <1>1, LoadPlaces DEF Rendered
<1>5. InOrder' /\ SummaryMatchesTables'
  BY DEF Fresh, InOrder, SummaryMatchesTables
<1>6. Opening'
  BY DEF Fresh, Opening
<1> QED
  BY <1>2, <1>3, <1>4, <1>5, <1>6 DEF IInv

\* A refresh begins when none is under way.
LEMMA SendKeeps ==
    ASSUME IInv, RestOK', NEW t \in Users \cup {None}, ~inProgress, Send(t),
           page' = "dashboard", page \in {"dashboard", "config", "verifying"},
           table' = table, version' = version
    PROVE  IInv'
<1>1. PICK i \in Refreshes : /\ Idle(i) /\ inProgress'
                             /\ load' = [load EXCEPT ![i] = [x \in Tables |-> Sent(t)]]
  BY DEF Send
<1>2. /\ load' \in [Refreshes -> [Tables -> Loads]]
      /\ \A x \in Tables : load'[i][x] = Sent(t)
      /\ \A j \in Refreshes \ {i} : load'[j] = load[j]
      /\ Sent(t).at = "sent"
  BY <1>1, LoadPlaces DEF IInv, TypeInv
<1>3. \A j \in Refreshes : Idle(j)
  BY DEF IInv, OneRefresh
<1>4. TypeInv'
  BY <1>2 DEF TypeInv
<1>5. OneRefresh'
  <2>1. Idle(i)' = FALSE
    BY <1>2 DEF Idle, Tables
  <2>2. \A j \in Refreshes \ {i} : Idle(j)'
    BY <1>2, <1>3 DEF Idle
  <2> QED
    BY <1>1, <1>2, <2>1, <2>2 DEF OneRefresh
<1>6. \A j \in Refreshes, x \in Tables : load'[j][x].at \in {"none", "sent"}
  BY <1>2, <1>3 DEF Idle
<1>7. InOrder'
  <2>1. CASE page = "dashboard"
    BY <1>6, <2>1 DEF IInv, InOrder
  <2>2. CASE page \in {"config", "verifying"}
    BY <1>6, <2>2, NoTableFields DEF IInv, Opening, InOrder, Newer
  <2> QED
    BY <2>1, <2>2
<1>8. Rendered' /\ SummaryMatchesTables' /\ Opening'
  BY <1>1, <1>6 DEF Rendered, SummaryMatchesTables, Opening
<1> QED
  BY <1>4, <1>5, <1>7, <1>8 DEF IInv

\* A message replaces a page that had nothing under way.
LEMMA MessageKeeps ==
    ASSUME IInv, RestOK', page # "dashboard", ShowMessage
    PROVE  IInv'
<1>1. load' = load /\ page' = "message" /\ inProgress' = inProgress /\ ~inProgress
  BY DEF ShowMessage, IInv, OneRefresh
<1>2. TypeInv' /\ OneRefresh'
  BY <1>1 DEF IInv, TypeInv, OneRefresh, Idle
<1>3. \A i \in Refreshes, x \in Tables : load'[i][x].at = "none"
  BY <1>1 DEF IInv, OneRefresh, Idle
<1>4. Rendered'
  BY <1>3 DEF Rendered
<1> QED
  BY <1>1, <1>2, <1>4 DEF IInv, InOrder, Opening, SummaryMatchesTables

\* Nothing of the tab changes but its token, or the queue gets newer.
LEMMA OutsideKeeps ==
    ASSUME IInv, RestOK', version' \in {version, version + 1},
           UNCHANGED <<page, inProgress, load, table, summary>>
    PROVE  IInv'
<1>1. TypeInv' /\ OneRefresh' /\ Rendered' /\ Opening' /\ SummaryMatchesTables'
  BY DEF IInv, TypeInv, OneRefresh, Idle, Rendered, Opening, SummaryMatchesTables
<1>2. InOrder'
  <2>1. version \in Int /\ version' >= version /\ version' # None
    BY DashboardAssumption DEF IInv, TypeInv, RestOK, Versions
  <2>2. ASSUME NEW x \in Tables
        PROVE  table[x].data \in Data
    BY DEF IInv, TypeInv, RestOK
  <2>3. ASSUME NEW i \in Refreshes, NEW x \in Tables, load[i][x].at = "back"
        PROVE  load[i][x].data \in Data
    BY <2>3, LoadFields DEF IInv, TypeInv
  <2> QED
    BY <2>1, <2>2, <2>3 DEF IInv, InOrder, Newer, Data, Versions
<1> QED
  BY <1>1, <1>2 DEF IInv

-----------------------------------------------------------------------------
\* A load that is under way and goes on to be under way.
LEMMA LoadMoves ==
    ASSUME IInv, NEW i \in Refreshes, NEW x \in Tables, NEW l \in Loads,
           load[i][x].at # "none", l.at # "none",
           load' = [load EXCEPT ![i][x] = l], inProgress' = inProgress, page' = page
    PROVE  /\ load' \in [Refreshes -> [Tables -> Loads]]
           /\ load'[i][x] = l
           /\ \A j \in Refreshes, y \in Tables : j # i \/ y # x => load'[j][y] = load[j][y]
           /\ OneRefresh'
<1>1. /\ load' \in [Refreshes -> [Tables -> Loads]]
      /\ load'[i][x] = l
      /\ \A j \in Refreshes, y \in Tables : j # i \/ y # x => load'[j][y] = load[j][y]
  BY DEF IInv, TypeInv
<1>2. \A j \in Refreshes : Idle(j)' <=> Idle(j)
  BY <1>1 DEF Idle
<1>3. OneRefresh'
  <2>1. \A j \in Refreshes : Idle(j)' \/ \A y \in Tables : load'[j][y].at # "none"
    BY <1>1, <1>2 DEF IInv, OneRefresh, Idle
  <2> QED
    BY <1>2, <2>1 DEF IInv, OneRefresh
<1> QED
  BY <1>1, <1>3

\* An answer tells the queue as it is; a failure tells nothing.
LEMMA AnswerKeeps ==
    ASSUME IInv, RestOK', NEW i \in Refreshes, NEW x \in Tables,
           load[i][x].at \in {"sent", "back"},
           NEW d \in {version, None}, load' = [load EXCEPT ![i][x] = Back(d)],
           UNCHANGED <<version, page, inProgress, table, summary>>
    PROVE  IInv'
<1>1. d \in Data /\ Back(d) \in Loads /\ Back(d).at = "back" /\ Back(d).data = d
  BY LoadPlaces DEF IInv, TypeInv, RestOK, Data
<1>2. /\ load' \in [Refreshes -> [Tables -> Loads]]
      /\ load'[i][x] = Back(d)
      /\ \A j \in Refreshes, y \in Tables : j # i \/ y # x => load'[j][y] = load[j][y]
      /\ OneRefresh'
  BY <1>1, LoadMoves
<1>3. InOrder'
  <2>1. version \in Int /\ version # None
    BY DashboardAssumption DEF IInv, TypeInv, RestOK, Versions
  <2>2. Newer(version, d)
    BY <2>1 DEF Newer
  <2>3. page = "dashboard" /\ d # None => Newer(d, table[x].data)
    BY DEF IInv, InOrder
  <2> QED
    BY <1>1, <1>2, <2>2, <2>3 DEF IInv, InOrder
<1>4. Rendered'
  BY <1>1, <1>2 DEF IInv, Rendered
<1> QED
  BY <1>2, <1>3, <1>4 DEF IInv, TypeInv, Opening, SummaryMatchesTables

\* What is rendered is not older than what was.
LEMMA LoadedKeeps ==
    ASSUME IInv, RestOK', NEW i \in Refreshes, NEW x \in Tables, Loaded(i, x)
    PROVE  /\ IInv'
           /\ page = "dashboard"
           /\ Newer(table'[x].shown, table[x].shown)
           /\ \A y \in Tables \ {x} : table'[y] = table[y]
<1> DEFINE arrived == load[i][x].data
           data == IF arrived = None THEN table[x].data ELSE arrived
           renders == Renders(x, data)
           place == IF ~renders THEN "rejected" ELSE IF arrived = None THEN "failed" ELSE "ok"
<1>1. /\ load[i][x].at = "back"
      /\ table' = [table EXCEPT ![x] = [data |-> data, error |-> arrived = None \/ ~renders,
                                        shown |-> IF renders THEN data ELSE @.shown]]
      /\ load' = [load EXCEPT ![i][x] = At(place)]
      /\ UNCHANGED <<version, page, inProgress, summary>>
  BY DEF Loaded
<1>2. page = "dashboard" /\ inProgress
  BY <1>1 DEF IInv, OneRefresh, Idle
<1>3. arrived \in Data /\ table[x].data \in Data /\ table[x].shown \in Data /\ version \in Data
  BY <1>1, LoadFields DEF IInv, TypeInv, RestOK, Data
<1>4. /\ Newer(data, table[x].data) /\ Newer(table[x].data, table[x].shown)
      /\ Newer(version, table[x].data)
  BY <1>1, <1>2, <1>3, DashboardAssumption DEF IInv, InOrder, Newer, Data, Versions
<1>5. /\ table'[x].data = data /\ (table'[x].error <=> arrived = None \/ ~renders)
      /\ table'[x].shown = IF renders THEN data ELSE table[x].shown
      /\ \A y \in Tables \ {x} : table'[y] = table[y]
  BY <1>1 DEF IInv, TypeInv, RestOK
<1>6. At(place) \in Loads /\ At(place).at = place /\ place # "none"
  BY LoadPlaces
<1> HIDE DEF arrived, data, renders, place
<1>7. /\ load' \in [Refreshes -> [Tables -> Loads]]
      /\ load'[i][x] = At(place)
      /\ \A j \in Refreshes, y \in Tables : j # i \/ y # x => load'[j][y] = load[j][y]
      /\ OneRefresh'
  <2>1. /\ load[i][x].at # "none" /\ At(place).at # "none"
        /\ load' = [load EXCEPT ![i][x] = At(place)]
        /\ inProgress' = inProgress /\ page' = page
    BY <1>1, <1>6
  <2> QED
    BY <1>6, <2>1, LoadMoves
<1>8. TypeInv'
  BY <1>7 DEF TypeInv
<1>9. InOrder'
  <2>1. Newer(version, data)
    BY <1>1, <1>2, <1>4 DEF IInv, InOrder, data, arrived
  <2>2. Newer(table'[x].data, table'[x].shown) /\ Newer(version', table'[x].data)
    BY <1>1, <1>3, <1>4, <1>5, <2>1, DashboardAssumption DEF Newer, Data, Versions, data
  <2>3. ASSUME NEW j \in Refreshes, load'[j][x].at = "back"
        PROVE  FALSE
    <3>1. j # i
      BY <1>6, <1>7, <2>3 DEF place
    <3>2. ~Idle(i) /\ ~Idle(j)
      BY <1>1, <1>7, <2>3, <3>1 DEF Idle
    <3> QED
      BY <3>1, <3>2 DEF IInv, OneRefresh
  <2>4. ASSUME NEW y \in Tables \ {x}
        PROVE  /\ table'[y] = table[y]
               /\ \A j \in Refreshes : load'[j][y] = load[j][y]
    BY <1>5, <1>7
  <2> QED
    BY <1>1, <1>2, <2>2, <2>3, <2>4 DEF IInv, InOrder
<1>10. Rendered'
  <2>1. place \in {"ok", "failed"} =>
          /\ table'[x].shown = table'[x].data
          /\ (table'[x].error <=> place = "failed")
    BY <1>5 DEF place
  <2>2. ASSUME NEW j \in Refreshes, j # i
        PROVE  Idle(j)
    BY <1>1, <2>2 DEF IInv, OneRefresh, Idle
  <2> QED
    BY <1>5, <1>6, <1>7, <2>1, <2>2 DEF IInv, Rendered, Idle
<1>11. Opening' /\ SummaryMatchesTables'
  BY <1>1, <1>2 DEF Opening, SummaryMatchesTables
<1>12. Newer(table'[x].shown, table[x].shown)
  BY <1>3, <1>4, <1>5, DashboardAssumption DEF Newer, Data, Versions, data
<1> QED
  BY <1>2, <1>5, <1>7, <1>8, <1>9, <1>10, <1>11, <1>12 DEF IInv

\* The summary is made from tables that were rendered.
LEMMA RefreshEndsKeeps ==
    ASSUME IInv, RestOK', NEW i \in Refreshes, RefreshEnds(i)
    PROVE  IInv'
<1>1. /\ \A x \in Tables : load[i][x].at \in {"ok", "failed"}
      /\ load' = [load EXCEPT ![i] = [x \in Tables |-> At("none")]]
      /\ ~inProgress'
      /\ summary' = [metrics |-> [x \in Tables |-> table[x].data],
                     connection |-> Connection({x \in Tables : load[i][x].at = "ok"})]
      /\ UNCHANGED <<version, page, table>>
  BY DEF RefreshEnds
<1>2. \A j \in Refreshes \ {i} : Idle(j)
  BY <1>1 DEF IInv, OneRefresh, Idle, Tables
<1>3. /\ load' \in [Refreshes -> [Tables -> Loads]]
      /\ \A j \in Refreshes, x \in Tables : load'[j][x].at = "none"
  BY <1>1, <1>2, LoadPlaces DEF IInv, TypeInv, Idle
<1>4. TypeInv' /\ OneRefresh' /\ Rendered'
  BY <1>1, <1>3 DEF TypeInv, OneRefresh, Rendered, Idle
<1>5. InOrder' /\ Opening'
  BY <1>1, <1>3 DEF IInv, InOrder, Opening
<1>6. SummaryMatchesTables'
  <2>1. \A x \in Tables : table[x].shown = table[x].data
    BY <1>1 DEF IInv, Rendered
  <2>2. \A x \in Tables : load[i][x].at = "ok" <=> ~table[x].error
    BY <1>1 DEF IInv, Rendered
  <2>3. {x \in Tables : load[i][x].at = "ok"} = {x \in Tables : ~table[x].error}
    BY <2>2
  <2> QED
    BY <1>1, <2>1, <2>3 DEF SummaryMatchesTables
<1> QED
  BY <1>4, <1>5, <1>6 DEF IInv

-----------------------------------------------------------------------------
(* The types, step by step.                                                *)

LEMMA FreshTyped ==
    ASSUME TypeInv, NEW p \in {"config", "login"}, Fresh(p),
           UNCHANGED <<settings, version>>, session' \in Users \cup {None}
    PROVE  TypeInv'
<1>1. load' \in [Refreshes -> [Tables -> Loads]]
  BY LoadPlaces DEF Fresh
<1>2. /\ table' \in [Tables -> [data : Data, error : BOOLEAN, shown : Data]]
      /\ summary' = NoSummary
  BY NoTableFields DEF Fresh
<1>3. RestOK'
  BY <1>2, SummaryTypes DEF Fresh, TypeInv, RestOK
<1> QED
  BY <1>1, <1>3 DEF TypeInv

LEMMA SendTyped ==
    ASSUME TypeInv, NEW t \in Users \cup {None}, Send(t)
    PROVE  inProgress' \in BOOLEAN /\ load' \in [Refreshes -> [Tables -> Loads]]
BY LoadPlaces DEF Send, TypeInv

LEMMA MessageTyped ==
    ASSUME TypeInv, ShowMessage, session' = session, listening' \in BOOLEAN,
           UNCHANGED <<settings, version>>
    PROVE  TypeInv'
<1>1. \A x \in Tables :
        [table[x] EXCEPT !.data = None, !.error = FALSE]
          \in [data : Data, error : BOOLEAN, shown : Data]
  BY DEF TypeInv, RestOK, Data
<1>2. table' \in [Tables -> [data : Data, error : BOOLEAN, shown : Data]]
  BY <1>1 DEF ShowMessage
<1>3. RestOK'
  BY <1>2 DEF ShowMessage, TypeInv, RestOK
<1> QED
  BY <1>3 DEF ShowMessage, TypeInv

LEMMA LoadTyped ==
    ASSUME TypeInv, NEW i \in Refreshes, NEW x \in Tables, NEW l \in Loads,
           load' = [load EXCEPT ![i][x] = l]
    PROVE  load' \in [Refreshes -> [Tables -> Loads]]
BY DEF TypeInv

LEMMA LoadedTyped ==
    ASSUME TypeInv, NEW i \in Refreshes, NEW x \in Tables, Loaded(i, x)
    PROVE  TypeInv'
<1> DEFINE arrived == load[i][x].data
           data == IF arrived = None THEN table[x].data ELSE arrived
           renders == Renders(x, data)
           place == IF ~renders THEN "rejected" ELSE IF arrived = None THEN "failed" ELSE "ok"
           entry == [data |-> data, error |-> arrived = None \/ ~renders,
                     shown |-> IF renders THEN data ELSE table[x].shown]
<1>1. /\ load[i][x].at = "back"
      /\ load' = [load EXCEPT ![i][x] = At(place)]
      /\ UNCHANGED <<settings, version, session, page, listening, token, inProgress, summary>>
  BY DEF Loaded
<1>2. arrived \in Data /\ table[x].data \in Data /\ table[x].shown \in Data
  BY <1>1, LoadFields DEF TypeInv, RestOK
<1>3. entry \in [data : Data, error : BOOLEAN, shown : Data]
  BY <1>2
<1>4. table' = [table EXCEPT ![x] = entry]
  BY DEF Loaded
<1>5. At(place) \in Loads
  BY LoadPlaces
<1> HIDE DEF arrived, data, renders, place, entry
<1>6. load' \in [Refreshes -> [Tables -> Loads]]
  BY <1>1, <1>5, LoadTyped
<1>7. table' \in [Tables -> [data : Data, error : BOOLEAN, shown : Data]]
  BY <1>3, <1>4 DEF TypeInv, RestOK
<1>8. RestOK'
  BY <1>1, <1>7 DEF TypeInv, RestOK
<1> QED
  BY <1>6, <1>8 DEF TypeInv

LEMMA EndTyped ==
    ASSUME TypeInv, NEW i \in Refreshes, RefreshEnds(i)
    PROVE  TypeInv'
<1>1. load' \in [Refreshes -> [Tables -> Loads]]
  BY LoadPlaces DEF RefreshEnds, TypeInv
<1>2. [x \in Tables |-> table[x].data] \in [Tables -> Data]
  BY DEF TypeInv, RestOK
<1>3. summary' \in [metrics : [Tables -> Data],
                    connection : {"connecting", "live", "partial", "error"}]
  BY <1>2, SummaryTypes DEF RefreshEnds
<1>4. RestOK'
  BY <1>3 DEF RefreshEnds, TypeInv, RestOK
<1> QED
  BY <1>1, <1>4 DEF TypeInv

\* Steps of the tab that begin a refresh, or only turn the page.
LEMMA TurnTyped ==
    ASSUME TypeInv, inProgress' \in BOOLEAN, load' \in [Refreshes -> [Tables -> Loads]],
           page' \in {"session", "verifying", "dashboard"},
           listening' \in BOOLEAN, token' \in Users \cup {None},
           UNCHANGED <<settings, version, session, table, summary>>
    PROVE  TypeInv'
BY DEF TypeInv, RestOK

\* Steps around the tab: what it holds stays, but for its token.
LEMMA OutsideTyped ==
    ASSUME TypeInv, settings' \in {s \in Environments : Accepted(s)}, version' \in Versions,
           session' \in Users \cup {None}, token' \in Users \cup {None},
           UNCHANGED <<page, listening, inProgress, load, table, summary>>
    PROVE  TypeInv'
BY DEF TypeInv, RestOK

\* What a step is.
LEMMA Steps ==
    ASSUME [Next]_vars
    PROVE  \/ Open \/ ConfigAnswered \/ SessionRead \/ NotInitialized \/ VerifyFails
           \/ \E answer \in Answers : Verified(answer)
           \/ Refresh
           \/ \E i \in Refreshes : RefreshEnds(i)
           \/ \E i \in Refreshes, x \in Tables : LoadStep(i, x)
           \/ \E u \in Users : SignedIn(u)
           \/ TokenRefreshed \/ SignedOut \/ SignOut
           \/ QueueChanges \/ NewDeployment \/ UNCHANGED vars
BY Zenon DEF Next

LEMMA NextTyped == TypeInv /\ [Next]_vars => TypeInv'
<1> SUFFICES ASSUME TypeInv, [Next]_vars PROVE TypeInv'
  OBVIOUS
<1>0. /\ settings \in {s \in Environments : Accepted(s)}
      /\ version \in Versions
      /\ session \in Users \cup {None} /\ token \in Users \cup {None}
      /\ listening \in BOOLEAN /\ inProgress \in BOOLEAN
      /\ load \in [Refreshes -> [Tables -> Loads]]
  BY DEF TypeInv, RestOK
<1>1. CASE Open
  BY <1>0, <1>1, FreshTyped DEF Open
<1>2. CASE ConfigAnswered
  <2>1. CASE settings.auth
    BY <1>0, <1>2, <2>1, TurnTyped DEF ConfigAnswered
  <2>2. CASE ~settings.auth
    <3>1. load' \in [Refreshes -> [Tables -> Loads]] /\ inProgress' \in BOOLEAN
      BY <1>2, <2>2, SendTyped DEF ConfigAnswered
    <3> QED
      BY <1>0, <1>2, <2>2, <3>1, TurnTyped DEF ConfigAnswered
  <2> QED
    BY <2>1, <2>2
<1>3. CASE SessionRead
  <2>1. CASE session = None
    BY <1>0, <1>3, <2>1, FreshTyped DEF SessionRead, Leave
  <2>2. CASE session # None
    BY <1>0, <1>3, <2>2, TurnTyped DEF SessionRead
  <2> QED
    BY <2>1, <2>2
<1>4. CASE NotInitialized
  BY <1>0, <1>4, MessageTyped DEF NotInitialized
<1>5. CASE VerifyFails
  BY <1>5, MessageTyped DEF VerifyFails
<1>6. ASSUME NEW answer \in Answers, Verified(answer)
      PROVE  TypeInv'
  <2>1. CASE session' = None /\ Leave
    BY <1>6, <2>1, FreshTyped DEF Verified, Leave
  <2>2. CASE ShowMessage /\ listening' = TRUE /\ session' = session
    BY <1>6, <2>2, MessageTyped DEF Verified
  <2>3. CASE /\ page' = "dashboard" /\ listening' = TRUE /\ Send(token)
             /\ UNCHANGED <<session, token, table, summary>>
    <3>1. load' \in [Refreshes -> [Tables -> Loads]] /\ inProgress' \in BOOLEAN
      BY <1>0, <2>3, SendTyped
    <3>2. UNCHANGED <<settings, version>>
      BY <1>6 DEF Verified
    <3> QED
      BY <1>0, <2>3, <3>1, <3>2, TurnTyped
  <2> QED
    BY <1>6, <2>1, <2>2, <2>3 DEF Verified
<1>7. CASE Refresh
  <2>1. load' \in [Refreshes -> [Tables -> Loads]] /\ inProgress' \in BOOLEAN
    BY <1>0, <1>7, SendTyped DEF Refresh
  <2> QED
    BY <1>0, <1>7, <2>1, TurnTyped DEF Refresh
<1>8. ASSUME NEW i \in Refreshes, NEW x \in Tables,
             FetchFails(i, x) \/ \E answer \in Answers : Serve(i, x, answer)
      PROVE  TypeInv'
  <2>1. \E d \in Data : load' = [load EXCEPT ![i][x] = Back(d)]
    BY <1>0, <1>8 DEF Serve, FetchFails, Data
  <2>2. load' \in [Refreshes -> [Tables -> Loads]]
    BY <2>1, LoadPlaces, LoadTyped
  <2>3. /\ UNCHANGED <<settings, version, session, page, listening, token, inProgress>>
        /\ UNCHANGED <<table, summary>>
    BY <1>8 DEF Serve, FetchFails
  <2> QED
    BY <2>2, <2>3 DEF TypeInv, RestOK
<1>9. ASSUME NEW i \in Refreshes, NEW x \in Tables, Loaded(i, x)
      PROVE  TypeInv'
  BY <1>9, LoadedTyped
<1>10. ASSUME NEW i \in Refreshes, RefreshEnds(i)
       PROVE  TypeInv'
  BY <1>10, EndTyped
<1>11. CASE QueueChanges
  <2>1. version' \in Versions
    BY <1>0, <1>11, DashboardAssumption DEF QueueChanges, Versions
  <2> QED
    BY <1>0, <1>11, <2>1, OutsideTyped DEF QueueChanges, tab
<1>12. CASE SignedOut
  <2>1. CASE listening
    BY <1>0, <1>12, <2>1, FreshTyped DEF SignedOut, Leave
  <2>2. CASE ~listening
    BY <1>0, <1>12, <2>2, OutsideTyped DEF SignedOut, tab
  <2> QED
    BY <2>1, <2>2
<1>13. CASE SignOut
  BY <1>0, <1>13, FreshTyped DEF SignOut, Leave
<1>14. ASSUME NEW i \in Refreshes, NEW x \in Tables, LoadStep(i, x)
       PROVE  TypeInv'
  BY <1>8, <1>9, <1>14 DEF LoadStep
<1>15. ASSUME NEW u \in Users, SignedIn(u)
       PROVE  TypeInv'
  BY <1>0, <1>15, OutsideTyped DEF SignedIn, tab
<1>16. CASE TokenRefreshed
  BY <1>0, <1>16, OutsideTyped DEF TokenRefreshed
<1>17. CASE NewDeployment
  BY <1>0, <1>17, OutsideTyped DEF NewDeployment, Deploy, tab
<1>18. CASE UNCHANGED vars
  BY <1>0, <1>18, OutsideTyped DEF vars, tab
<1> QED
  BY <1>1, <1>2, <1>3, <1>4, <1>5, <1>6, <1>7, <1>10, <1>11, <1>12, <1>13, <1>14, <1>15,
     <1>16, <1>17, <1>18, Steps

-----------------------------------------------------------------------------
(* The keys of a deployment and of the next.                               *)

\* A set of naturals has a least element.
LEMMA LeastNatural ==
    ASSUME NEW S, S \subseteq Nat, S # {}
    PROVE  \E least \in S : \A n \in S : least <= n
<1>1. PICK least \in S : \A n \in S : ~ (<<n, least>> \in OpToRel(<, Nat))
  BY NatLessThanWellFounded, WFMin
<1>2. \A n \in S : ~ (n < least)
  BY <1>1 DEF OpToRel
<1> QED
  BY <1>2

\* Max of the places of a sequence is one of them.
LEMMA GreatestExists ==
    ASSUME NEW n \in Nat, NEW S, S \subseteq 1 .. n, S # {}
    PROVE  Max(S) \in S
<1> DEFINE T == {m \in Nat : \E i \in S : m = n - i}
<1>1. T # {}
  <2>1. PICK i \in S : TRUE
    OBVIOUS
  <2>2. n - i \in T
    BY <2>1
  <2> QED
    BY <2>2
<1>2. PICK least \in T : \A m \in T : least <= m
  <2> HIDE DEF T
  <2>1. T \subseteq Nat
    BY DEF T
  <2> QED
    BY <1>1, <2>1, LeastNatural
<1>3. PICK i \in S : least = n - i
  BY <1>2
<1>4. \A j \in S : i >= j
  <2>1. SUFFICES ASSUME NEW j \in S PROVE i >= j
    OBVIOUS
  <2>2. n - j \in T
    BY <2>1
  <2>3. least <= n - j
    BY <1>2, <2>2
  <2> QED
    BY <1>3, <2>1, <2>3
<1> QED
  BY <1>4 DEF Max

\* What a map of keys says of a key is what one of its entries says.
LEMMA NamedEntry ==
    ASSUME NEW entries \in Seq(Entry), NEW k \in DOMAIN NamedKeyHashes(entries)
    PROVE  \E i \in DOMAIN entries :
             entries[i].key = k /\ NamedKeyHashes(entries)[k] = entries[i].name
<1> DEFINE at == {i \in DOMAIN entries : entries[i].key = k}
<1>1. k \in {entries[i].key : i \in DOMAIN entries}
  BY DEF NamedKeyHashes
<1>2. NamedKeyHashes(entries)[k] = entries[Max(at)].name
  BY <1>1 DEF NamedKeyHashes
<1>3. at # {} /\ at \subseteq 1 .. Len(entries) /\ Len(entries) \in Nat
  BY <1>1
<1>4. Max(at) \in at
  <2> HIDE DEF at
  <2> QED
    BY <1>3, GreatestExists
<1> QED
  BY <1>2, <1>4

\* A key other than that of Demo Reel is looked up in SERVICE_API_KEYS.
LEMMA OtherKeys ==
    ASSUME NEW s \in Settings, NEW key \in Keys, key # s.demo
    PROVE  ByName(key, ServiceKeyHashes(s)) = ByName(key, NamedKeyHashes(s.service))
<1>1. key \in DOMAIN ServiceKeyHashes(s) <=> key \in DOMAIN NamedKeyHashes(s.service)
  BY DEF ServiceKeyHashes
<1>2. key \in DOMAIN NamedKeyHashes(s.service) =>
        ServiceKeyHashes(s)[key] = NamedKeyHashes(s.service)[key]
  BY DEF ServiceKeyHashes
<1> QED
  BY <1>1, <1>2 DEF ByName

\* The validator lets SERVICE_API_KEYS repeat the key of Demo Reel under its
\* name only, so that the dedicated hash names a key that was listed as it did.
LEMMA DemoReelRepeated ==
    ASSUME NEW s \in Settings, DemoReelAgrees(s), s.demo # None,
           s.demo \in DOMAIN NamedKeyHashes(s.service)
    PROVE  ByName(s.demo, ServiceKeyHashes(s)) = ByName(s.demo, NamedKeyHashes(s.service))
<1>1. s.service \in Seq(Entry)
  BY DEF Settings
<1>2. PICK i \in DOMAIN s.service : /\ s.service[i].key = s.demo
                                    /\ NamedKeyHashes(s.service)[s.demo] = s.service[i].name
  BY <1>1, NamedEntry
<1>3. NamedKeyHashes(s.service)[s.demo] = DemoReel
  BY <1>2 DEF DemoReelAgrees
<1>4. s.demo \in DOMAIN ServiceKeyHashes(s) /\ ServiceKeyHashes(s)[s.demo] = DemoReel
  BY DEF ServiceKeyHashes
<1> QED
  BY <1>3, <1>4 DEF ByName

\* What a key of a machine is on a route does not depend on the enforcement.
LEMMA KeyAlone ==
    ASSUME NEW s, NEW key \in Keys
    PROVE  /\ RequireProducer(s, key) = ByName(key, ServiceKeyHashes(s))
           /\ RequireProducerStrict(s, key) = ByName(key, ServiceKeyHashes(s))
           /\ RequireAdminOrService(s, key, None, "user") = ByName(key, ServiceKeyHashes(s))
           /\ RequireWorker(s, key) =
                IF key \in DOMAIN WorkerKeyHashes(s) THEN ByName(key, WorkerKeyHashes(s))
                ELSE IF key \in UserKeys THEN Granted(key) ELSE Refused(401)
<1>1. key # None
  BY AccessAssumption
<1> QED
  BY <1>1 DEF RequireProducer, RequireProducerStrict, RequireAdminOrService, RequireWorker,
              RequireMachineKey

\* The dedicated hash and the switch change nothing for a key that worked.
LEMMA RolloutKeeps ==
    ASSUME NEW s \in Settings, NEW t \in Settings, Accepted(t), IsRollout(s, t),
           NEW key \in Keys \ {s.demo},
           RequireProducer(s, key).status = 200 \/ key # t.demo
    PROVE  MachineDecisions(t, key) = MachineDecisions(s, key)
<1>1. t.service = s.service /\ t.worker = s.worker
  BY DEF IsRollout, Settings
<1>2. ByName(key, ServiceKeyHashes(s)) = ByName(key, NamedKeyHashes(s.service))
  BY OtherKeys
<1>3. ByName(key, ServiceKeyHashes(t)) = ByName(key, NamedKeyHashes(s.service))
  <2>1. CASE key # t.demo
    BY <1>1, <2>1, OtherKeys
  <2>2. CASE key = t.demo
    <3>1. key # None /\ DemoReelAgrees(t)
      BY AccessAssumption DEF Accepted
    <3>2. ByName(key, NamedKeyHashes(s.service)).status = 200
      BY <1>2, <2>2, KeyAlone
    <3>3. key \in DOMAIN NamedKeyHashes(s.service)
      BY <3>2 DEF ByName, Refused
    <3> QED
      BY <1>1, <2>2, <3>1, <3>3, DemoReelRepeated
  <2> QED
    BY <2>1, <2>2
<1>4. WorkerKeyHashes(t) = WorkerKeyHashes(s)
  BY <1>1 DEF WorkerKeyHashes
<1> QED
  BY <1>2, <1>3, <1>4, KeyAlone DEF MachineDecisions

-----------------------------------------------------------------------------
LEMMA InitInv == Init => IInv
<1> SUFFICES ASSUME Init PROVE IInv
  OBVIOUS
<1>1. load \in [Refreshes -> [Tables -> Loads]]
  BY LoadPlaces DEF Init
<1>2. \A i \in Refreshes, x \in Tables : load[i][x].at = "none"
  BY LoadPlaces DEF Init
<1>3. RestOK
  <2>1. table \in [Tables -> [data : Data, error : BOOLEAN, shown : Data]]
    BY NoTableFields DEF Init
  <2>2. settings \in {s \in Environments : Accepted(s)} /\ version \in Versions
    BY DashboardAssumption DEF Init, AccessInit, Versions
  <2> QED
    BY <2>1, <2>2, SummaryTypes DEF Init, RestOK
<1>4. OneRefresh /\ Rendered
  BY <1>2 DEF Init, OneRefresh, Rendered, Idle
<1>5. InOrder /\ Opening /\ SummaryMatchesTables
  BY DEF Init, InOrder, Opening, SummaryMatchesTables
<1> QED
  BY <1>1, <1>3, <1>4, <1>5 DEF IInv, TypeInv

LEMMA NextKeeps == IInv /\ [Next]_vars => IInv'
<1> SUFFICES ASSUME IInv, [Next]_vars PROVE IInv'
  OBVIOUS
<1>0. TypeInv /\ TypeInv' /\ RestOK' /\ token \in Users \cup {None} /\ version \in Versions
  BY NextTyped DEF IInv, TypeInv, RestOK
<1>1. /\ Open => IInv'
      /\ SignOut => IInv'
      /\ SignedOut => ~listening \/ IInv'
      /\ SessionRead => session # None \/ IInv'
  BY <1>0, FreshKeeps DEF Open, SignOut, SignedOut, SessionRead, Leave
<1>2. CASE SessionRead /\ session # None
  <2>1. /\ page = "session" /\ page' = "verifying" /\ UNCHANGED <<inProgress, load, table>>
        /\ ~inProgress
    BY <1>2 DEF SessionRead, IInv, OneRefresh
  <2>2. OneRefresh' /\ Rendered' /\ Opening'
    BY <2>1 DEF IInv, OneRefresh, Idle, Rendered, Opening
  <2> QED
    BY <1>0, <2>1, <2>2 DEF IInv, InOrder, SummaryMatchesTables
<1>3. CASE ConfigAnswered
  <2>1. page = "config" /\ ~inProgress /\ Opening
    BY <1>3 DEF ConfigAnswered, IInv, OneRefresh
  <2>2. CASE settings.auth
    <3>1. page' = "session" /\ UNCHANGED <<inProgress, load, table>>
      BY <1>3, <2>2 DEF ConfigAnswered
    <3>2. OneRefresh' /\ Rendered' /\ Opening'
      BY <2>1, <3>1 DEF IInv, OneRefresh, Idle, Rendered, Opening
    <3> QED
      BY <1>0, <3>1, <3>2 DEF IInv, InOrder, SummaryMatchesTables
  <2>3. CASE ~settings.auth
    BY <1>0, <1>3, <2>1, <2>3, SendKeeps DEF ConfigAnswered
  <2> QED
    BY <2>2, <2>3
<1>4. CASE NotInitialized \/ VerifyFails
  BY <1>0, <1>4, MessageKeeps DEF NotInitialized, VerifyFails
<1>5. ASSUME NEW answer \in Answers, Verified(answer)
      PROVE  IInv'
  <2>1. page = "verifying" /\ ~inProgress /\ Opening /\ version' = version
    BY <1>5 DEF Verified, IInv, OneRefresh
  <2>2. CASE Leave
    BY <1>0, <2>2, FreshKeeps DEF Leave
  <2>3. CASE ShowMessage
    BY <1>0, <2>1, <2>3, MessageKeeps
  <2>4. CASE Send(token) /\ page' = "dashboard" /\ table' = table
    BY <1>0, <2>1, <2>4, SendKeeps
  <2> QED
    BY <1>5, <2>2, <2>3, <2>4 DEF Verified
<1>6. CASE Refresh
  <2>1. /\ page = "dashboard" /\ page' = "dashboard" /\ ~inProgress /\ Send(token)
        /\ table' = table /\ version' = version
    BY <1>6 DEF Refresh
  <2> QED
    BY <1>0, <2>1, SendKeeps
<1>7. ASSUME NEW i \in Refreshes, NEW x \in Tables,
             FetchFails(i, x) \/ \E answer \in Answers : Serve(i, x, answer)
      PROVE  IInv'
  <2>1. PICK d \in {version, None} : load' = [load EXCEPT ![i][x] = Back(d)]
    BY <1>7 DEF Serve, FetchFails
  <2>2. /\ load[i][x].at \in {"sent", "back"}
        /\ UNCHANGED <<version, page, inProgress, table, summary>>
    BY <1>7 DEF Serve, FetchFails
  <2> QED
    BY <1>0, <2>1, <2>2, AnswerKeeps
<1>8. ASSUME NEW i \in Refreshes, NEW x \in Tables, Loaded(i, x)
      PROVE  IInv'
  BY <1>0, <1>8, LoadedKeeps
<1>9. ASSUME NEW i \in Refreshes, RefreshEnds(i)
      PROVE  IInv'
  BY <1>0, <1>9, RefreshEndsKeeps
<1>10. ASSUME version' \in {version, version + 1},
              UNCHANGED <<page, inProgress, load, table, summary>>
       PROVE  IInv'
  BY <1>0, <1>10, OutsideKeeps
<1>11. ASSUME NEW i \in Refreshes, NEW x \in Tables, LoadStep(i, x)
       PROVE  IInv'
  BY <1>7, <1>8, <1>11 DEF LoadStep
<1>12. CASE SessionRead
  BY <1>1, <1>2, <1>12
<1>13. CASE SignedOut
  <2>1. ~listening => UNCHANGED <<version, page, inProgress, load, table, summary>>
    BY <1>13 DEF SignedOut, tab
  <2> QED
    BY <1>1, <1>10, <1>13, <2>1
<1>14. CASE TokenRefreshed
  BY <1>10, <1>14 DEF TokenRefreshed
<1>15. CASE QueueChanges
  BY <1>10, <1>15 DEF QueueChanges, tab
<1>16. CASE NewDeployment
  BY <1>10, <1>16 DEF NewDeployment, tab
<1>17. CASE UNCHANGED vars
  BY <1>10, <1>17 DEF vars, tab
<1>18. ASSUME NEW u \in Users, SignedIn(u)
       PROVE  IInv'
  BY <1>10, <1>18 DEF SignedIn, tab
<1> QED
  BY <1>1, <1>3, <1>4, <1>5, <1>6, <1>9, <1>11, <1>12, <1>13, <1>14, <1>15, <1>16, <1>17,
     <1>18, Steps

-----------------------------------------------------------------------------
\* Everything above holds in every state the page can reach.
THEOREM DashboardInvariant == Spec => []IInv
<1> QED
  BY InitInv, NextKeeps, PTL DEF Spec

\* The tab's variables, the session and the deployment keep their types.
THEOREM TypeCorrect == Spec => []TypeOK
<1>1. IInv => TypeOK
  BY DEF IInv, TypeInv, RestOK, TypeOK, Loads
<1> QED
  BY <1>1, DashboardInvariant, PTL

\* refresh() leaves metrics and a connection state that agree with the two
\* tables, whatever arrived, failed or was read before (admin.js).
THEOREM SummaryMatches == Spec => []SummaryMatchesTables
<1>1. IInv => SummaryMatchesTables
  BY DEF IInv
<1> QED
  BY <1>1, DashboardInvariant, PTL

\* loadResource never puts an older state of the queue on screen than the one
\* there, because no refresh begins beside another (admin.js, refresh).
THEOREM TablesOnlyAdvance == Spec => TablesNeverGoBack
<1>1. IInv /\ [Next]_vars =>
        [\A x \in Tables :
           table[x].shown # None /\ page' = "dashboard" =>
             table'[x].shown # None /\ table'[x].shown >= table[x].shown]_vars
  <2> SUFFICES ASSUME IInv, [Next]_vars, NEW x \in Tables,
                      table[x].shown # None, page' = "dashboard"
               PROVE  table'[x].shown # None /\ table'[x].shown >= table[x].shown
    BY DEF vars, tab
  <2>1. CASE table' = table
    <3>1. table[x].shown \in Versions
      BY DEF IInv, TypeInv, RestOK, Data
    <3> QED
      BY <2>1, <3>1, DashboardAssumption DEF Versions
  <2>2. ASSUME NEW i \in Refreshes, NEW y \in Tables, Loaded(i, y)
        PROVE  table'[x].shown # None /\ table'[x].shown >= table[x].shown
    <3>1. RestOK'
      BY NextTyped DEF IInv, TypeInv
    <3>2. /\ Newer(table'[y].shown, table[y].shown)
          /\ \A z \in Tables \ {y} : table'[z] = table[z]
      BY <2>2, <3>1, LoadedKeeps
    <3>3. CASE x = y
      BY <3>2, <3>3 DEF Newer
    <3>4. CASE x # y
      <4>1. table'[x] = table[x] /\ table[x].shown \in Versions
        BY <3>2, <3>4 DEF IInv, TypeInv, RestOK, Data
      <4> QED
        BY <4>1, DashboardAssumption DEF Versions
    <3> QED
      BY <3>3, <3>4
  <2>3. CASE \/ Open \/ SignOut \/ NotInitialized \/ VerifyFails
    BY <2>3 DEF Open, SignOut, NotInitialized, VerifyFails, ShowMessage, Leave, Fresh
  <2>4. CASE SessionRead \/ SignedOut
    <3>1. table' = table \/ Fresh("login")
      BY <2>4 DEF SessionRead, SignedOut, tab, Leave
    <3> QED
      BY <2>1, <3>1 DEF Fresh
  <2>5. ASSUME NEW answer \in Answers, Verified(answer)
        PROVE  table' = table
    BY <2>5 DEF Verified, ShowMessage, Leave, Fresh
  <2>6. CASE \/ ConfigAnswered \/ Refresh \/ TokenRefreshed \/ QueueChanges \/ NewDeployment
             \/ UNCHANGED vars
    BY <2>1, <2>6
       DEF ConfigAnswered, Refresh, TokenRefreshed, QueueChanges, NewDeployment, vars, tab
  <2>7. ASSUME NEW u \in Users, SignedIn(u)
        PROVE  table' = table
    BY <2>7 DEF SignedIn, tab
  <2>8. ASSUME NEW i \in Refreshes, RefreshEnds(i)
        PROVE  table' = table
    BY <2>8 DEF RefreshEnds
  <2>9. ASSUME NEW i \in Refreshes, NEW y \in Tables, LoadStep(i, y)
        PROVE  table' = table \/ Loaded(i, y)
    BY <2>9 DEF LoadStep, Serve, FetchFails
  <2> QED
    BY <2>1, <2>2, <2>3, <2>4, <2>5, <2>6, <2>7, <2>8, <2>9, Steps
<1> QED
  BY <1>1, DashboardInvariant, PTL DEF Spec, TablesNeverGoBack

\* The rollouts of docs/authentication.md: whatever settings were deployed and
\* whatever is deployed next, a new hash of Demo Reel or a switched enforcement
\* leaves a key that worked, or is not the new one, the caller it was (auth.py).
THEOREM RolloutsAreSafe == Spec => RolloutsLeaveKeysAlone
<1>1. IInv /\ IInv' =>
        [IsRollout(settings, settings') =>
           \A key \in Keys \ {settings.demo} :
             RequireProducer(settings, key).status = 200 \/ key # settings'.demo =>
                 MachineDecisions(settings', key) = MachineDecisions(settings, key)]_settings
  <2> SUFFICES ASSUME IInv, IInv', IsRollout(settings, settings'),
                      NEW key \in Keys \ {settings.demo},
                      RequireProducer(settings, key).status = 200 \/ key # settings'.demo
               PROVE  MachineDecisions(settings', key) = MachineDecisions(settings, key)
    OBVIOUS
  <2>1. settings \in Settings /\ settings' \in Settings /\ Accepted(settings')
    BY EnvironmentsAssumption DEF IInv, TypeInv, RestOK
  <2> QED
    BY <2>1, RolloutKeeps
<1> QED
  BY <1>1, DashboardInvariant, PTL DEF RolloutsLeaveKeysAlone

=============================================================================
