------------------------------ MODULE Dashboard ------------------------------
(***************************************************************************)
(* The admin dashboard (admin_ui/admin.js) in a browser tab: opening the   *)
(* page, checking the session, refreshing two tables by two requests, and  *)
(* the events of the authentication client; beside it the deployment,      *)
(* whose decisions are those of Access, the queue it reads, and the        *)
(* session, which other tabs of the browser share.                         *)
(*                                                                         *)
(* JavaScript runs to the next await in one step.  What a table is made    *)
(* from is the version of the queue it was read at.                        *)
(***************************************************************************)
EXTENDS Access, Integers

CONSTANTS
    Refreshes,   \* refreshes that could run at once, if nothing kept them apart
    MaxVersion,  \* BOUND on the changes of the queue
    Unrenderable \* versions with a worker row whose capabilities.task_types is no list

ASSUME DashboardAssumption ==
    /\ MaxVersion \in Nat /\ None \notin 0 .. MaxVersion
    /\ Unrenderable \subseteq 0 .. MaxVersion

VARIABLES
    version,     \* the queue
    session,     \* the user signed in in this browser, or None
    page,        \* what the tab shows, or waits for before it shows anything
    listening,   \* onAuthStateChange was called on an authClient
    token,       \* accessToken
    inProgress,  \* refreshInProgress
    load,        \* each refresh: how far its two loadResource are
    table,       \* resources: data and error; and the version the rows on screen show
    summary      \* the metrics, and the connection state

tab == <<page, listening, token, inProgress, load, table, summary>>
vars == <<settings, version, session, tab>>

Tables == {"workers", "tasks"}
Versions == 0 .. MaxVersion

At(place) == [at |-> place]
Sent(t) == [at |-> "sent", token |-> t]
Back(data) == [at |-> "back", data |-> data]

NoTable == [data |-> None, error |-> FALSE, shown |-> None]
NoSummary == [metrics |-> [x \in Tables |-> None], connection |-> "connecting"]

\* A page that was just opened.
Fresh(p) ==
    /\ page' = p
    /\ listening' = FALSE
    /\ token' = None
    /\ inProgress' = FALSE
    /\ load' = [i \in Refreshes |-> [x \in Tables |-> At("none")]]
    /\ table' = [x \in Tables |-> NoTable]
    /\ summary' = NoSummary

Leave == Fresh("login")

-----------------------------------------------------------------------------
(* refresh                                                                 *)

Idle(i) == \A x \in Tables : load[i][x].at = "none"

\* Both loadResource send their request with the token of this moment.
Send(t) ==
    /\ \E i \in Refreshes : Idle(i)
    /\ inProgress' = TRUE
    /\ LET i == CHOOSE j \in Refreshes : Idle(j)
       IN load' = [load EXCEPT ![i] = [x \in Tables |-> Sent(t)]]

\* Mutant: nothing keeps a refresh from starting beside another.
RefreshBesideAnother ==
    /\ page = "dashboard"
    /\ Send(token)
    /\ UNCHANGED <<settings, version, session, page, listening, token, table, summary>>

\* The button, or the interval while the page is visible.
Refresh ==
    /\ page = "dashboard"
    /\ ~inProgress
    /\ Send(token)
    /\ UNCHANGED <<settings, version, session, page, listening, token, table, summary>>

Decision(x, bearer, answer) ==
    IF x = "workers" THEN RequireAdminOrService(settings, None, bearer, answer)
                     ELSE RequireAdmin(settings, bearer, answer)

\* GET /workers, GET /tasks: the rows as they are now, or a refusal.
Serve(i, x, answer) ==
    /\ load[i][x].at = "sent"
    /\ load' = [load EXCEPT ![i][x] =
                  Back(IF Decision(x, load[i][x].token, answer).status = 200
                       THEN version ELSE None)]
    /\ UNCHANGED <<settings, version, session, page, listening, token, inProgress,
                   table, summary>>

\* The network, or a body that is no JSON array.
FetchFails(i, x) ==
    /\ load[i][x].at \in {"sent", "back"}
    /\ load' = [load EXCEPT ![i][x] = Back(None)]
    /\ UNCHANGED <<settings, version, session, page, listening, token, inProgress,
                   table, summary>>

Renders(x, data) == x = "workers" => data \notin Unrenderable

\* loadResource goes on: rows that arrived are rendered, after a failure those
\* that were there.  If rendering throws, the handler renders again, throws
\* again, and the promise is rejected.
Loaded(i, x) ==
    /\ load[i][x].at = "back"
    /\ LET arrived == load[i][x].data
           data == IF arrived = None THEN table[x].data ELSE arrived
           renders == Renders(x, data)
       IN /\ table' = [table EXCEPT ![x] =
                         [data |-> data,
                          error |-> arrived = None \/ ~renders,
                          shown |-> IF renders THEN data ELSE @.shown]]
          /\ load' = [load EXCEPT ![i][x] =
                        At(IF ~renders THEN "rejected"
                           ELSE IF arrived = None THEN "failed" ELSE "ok")]
    /\ UNCHANGED <<settings, version, session, page, listening, token, inProgress,
                   summary>>

Connection(ok) ==
    IF ok = Tables THEN "live" ELSE IF ok # {} THEN "partial" ELSE "error"

\* Mutant: a table counts as updated when it has data.
RefreshEndsByData(i) ==
    /\ \A x \in Tables : load[i][x].at \in {"ok", "failed"}
    /\ summary' = [metrics |-> [x \in Tables |-> table[x].data],
                   connection |-> Connection({x \in Tables : table[x].data # None})]
    /\ load' = [load EXCEPT ![i] = [x \in Tables |-> At("none")]]
    /\ inProgress' = FALSE
    /\ UNCHANGED <<settings, version, session, page, listening, token, table>>

\* Mutant: a failed table keeps the refresh from ending.
RefreshEndsIfBothLoaded(i) ==
    /\ \A x \in Tables : load[i][x].at = "ok"
    /\ summary' = [metrics |-> [x \in Tables |-> table[x].data], connection |-> "live"]
    /\ load' = [load EXCEPT ![i] = [x \in Tables |-> At("none")]]
    /\ inProgress' = FALSE
    /\ UNCHANGED <<settings, version, session, page, listening, token, table>>

\* After Promise.all, which a rejected promise keeps from being fulfilled.
RefreshEnds(i) ==
    /\ \A x \in Tables : load[i][x].at \in {"ok", "failed"}
    /\ summary' = [metrics |-> [x \in Tables |-> table[x].data],
                   connection |-> Connection({x \in Tables : load[i][x].at = "ok"})]
    /\ load' = [load EXCEPT ![i] = [x \in Tables |-> At("none")]]
    /\ inProgress' = FALSE
    /\ UNCHANGED <<settings, version, session, page, listening, token, table>>

-----------------------------------------------------------------------------
(* initializeAuth, verifyAdminSession                                      *)

\* Opened, or reloaded.
Open == Fresh("config") /\ UNCHANGED <<settings, version, session>>

\* GET /auth/config; without authentication the dashboard opens at once.
ConfigAnswered ==
    /\ page = "config"
    /\ IF settings.auth
       THEN /\ page' = "session"
            /\ UNCHANGED <<inProgress, load>>
       ELSE /\ page' = "dashboard"
            /\ Send(None)
    /\ UNCHANGED <<settings, version, session, listening, token, table, summary>>

\* getSession
SessionRead ==
    /\ page = "session"
    /\ IF session = None
       THEN Leave
       ELSE /\ page' = "verifying"
            /\ token' = session
            /\ UNCHANGED <<listening, inProgress, load, table, summary>>
    /\ UNCHANGED <<settings, version, session>>

\* showMessage: forgets the token and what was loaded.
ShowMessage ==
    /\ page' = "message"
    /\ token' = None
    /\ table' = [x \in Tables |-> [table[x] EXCEPT !.data = None, !.error = FALSE]]
    /\ UNCHANGED <<inProgress, load, summary>>

NotInitialized ==
    /\ page \in {"config", "session"}
    /\ ShowMessage
    /\ UNCHANGED <<settings, version, session, listening>>

\* GET /auth/me.  Afterwards, whatever the answer, the tab listens to events.
Verified(answer) ==
    /\ page = "verifying"
    /\ LET status == RequireAdmin(settings, token, answer).status
       IN \/ /\ status = 200
             /\ page' = "dashboard"
             /\ listening' = TRUE
             /\ Send(token)
             /\ UNCHANGED <<session, token, table, summary>>
          \/ status = 401 /\ session' = None /\ Leave
          \/ status \in {403, 503} /\ ShowMessage /\ listening' = TRUE /\ UNCHANGED session
    /\ UNCHANGED <<settings, version>>

VerifyFails ==
    /\ page = "verifying"
    /\ ShowMessage
    /\ listening' = TRUE
    /\ UNCHANGED <<settings, version, session>>

-----------------------------------------------------------------------------
(* The session changes, in this tab or in another.                         *)

SignedIn(u) ==
    /\ session' = u
    /\ UNCHANGED <<settings, version, tab>>

TokenRefreshed ==
    /\ session # None
    /\ listening
    /\ token' = session
    /\ UNCHANGED <<settings, version, session, page, listening, inProgress, load,
                   table, summary>>

SignedOut ==
    /\ session # None
    /\ session' = None
    /\ IF listening THEN Leave ELSE UNCHANGED tab
    /\ UNCHANGED <<settings, version>>

\* A button of the dashboard and of the messages after a check: the tab leaves
\* whether or not the service could be told.
SignOut ==
    /\ listening
    /\ page \in {"dashboard", "message"}
    /\ session' \in {None, session}
    /\ Leave
    /\ UNCHANGED <<settings, version>>

-----------------------------------------------------------------------------
QueueChanges ==
    /\ version < MaxVersion
    /\ version' = version + 1
    /\ UNCHANGED <<settings, session, tab>>

NewDeployment == Deploy /\ UNCHANGED <<version, session, tab>>

Init ==
    /\ AccessInit
    /\ version = 0
    /\ session \in Users \cup {None}
    /\ page = "config"
    /\ listening = FALSE
    /\ token = None
    /\ inProgress = FALSE
    /\ load = [i \in Refreshes |-> [x \in Tables |-> At("none")]]
    /\ table = [x \in Tables |-> NoTable]
    /\ summary = NoSummary

LoadStep(i, x) ==
    \/ \E answer \in Answers : Serve(i, x, answer)
    \/ FetchFails(i, x)
    \/ Loaded(i, x)

Next ==
    \/ Open \/ ConfigAnswered \/ SessionRead \/ NotInitialized \/ VerifyFails
    \/ \E answer \in Answers : Verified(answer)
    \/ Refresh
    \/ \E i \in Refreshes : RefreshEnds(i) \/ \E x \in Tables : LoadStep(i, x)
    \/ \E u \in Users : SignedIn(u)
    \/ TokenRefreshed \/ SignedOut \/ SignOut
    \/ QueueChanges \/ NewDeployment

\* A browser ends every request, with an answer or an error, and runs what waits.
Fairness ==
    \A i \in Refreshes :
        /\ WF_vars(RefreshEnds(i))
        /\ \A x \in Tables :
             /\ WF_vars(\E answer \in Answers : Serve(i, x, answer))
             /\ WF_vars(Loaded(i, x))

Spec == Init /\ [][Next]_vars
FairSpec == Spec /\ Fairness

-----------------------------------------------------------------------------
Data == Versions \cup {None}

TypeOK ==
    /\ settings \in {s \in Environments : Accepted(s)}
    /\ version \in Versions
    /\ session \in Users \cup {None}
    /\ page \in {"config", "session", "verifying", "dashboard", "message", "login"}
    /\ listening \in BOOLEAN /\ inProgress \in BOOLEAN
    /\ token \in Users \cup {None}
    /\ table \in [Tables -> [data : Data, error : BOOLEAN, shown : Data]]
    /\ summary \in [metrics : [Tables -> Data],
                    connection : {"connecting", "live", "partial", "error"}]
    /\ \A i \in Refreshes, x \in Tables :
         load[i][x] \in {At("none"), At("ok"), At("failed"), At("rejected")}
                          \cup {Sent(t) : t \in Users \cup {None}} \cup {Back(d) : d \in Data}

\* A table on screen never goes back to an older state of the queue, however
\* the answers of its requests, failures and sign-ins follow each other.
TablesNeverGoBack ==
    [][\A x \in Tables :
         table[x].shown # None /\ page' = "dashboard" =>
             table'[x].shown # None /\ table'[x].shown >= table[x].shown]_vars

\* Between refreshes the metrics are those of the rows on screen, and the
\* connection state says of both tables whether they are up to date.
SummaryMatchesTables ==
    page = "dashboard" /\ ~inProgress =>
        /\ \A x \in Tables : summary.metrics[x] = table[x].shown
        /\ summary.connection = Connection({x \in Tables : ~table[x].error})

Rejected == \E i \in Refreshes, x \in Tables : load[i][x].at = "rejected"

\* A refresh ends, so that another can begin, whatever its requests answer,
\* unless a row cannot be rendered.
EveryRefreshEnds == inProgress ~> ~inProgress \/ Rejected
=============================================================================
