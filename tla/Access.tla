------------------------------- MODULE Access -------------------------------
(***************************************************************************)
(* The settings of a deployment (config.py) and what auth.py decides from  *)
(* them: who a caller is on the routes for producers, for workers and for  *)
(* administrators.  A deployment reads its environment once; a change      *)
(* means a new deployment, which refuses to start with settings that       *)
(* validate_auth_configuration rejects.                                    *)
(*                                                                         *)
(* A key stands for its sha256, an e-mail for itself in lower case.  The   *)
(* keys of users are the subject of WorkerKeys: here they are a set.       *)
(***************************************************************************)
EXTENDS Sequences, FiniteSetsExt

CONSTANTS
    Keys,         \* keys that may be configured or presented
    UserKeys,     \* users' worker keys that find_active_key finds
    Names,        \* names of services and workers
    Users,        \* accounts of the identity service, named by their e-mail
    DemoReel,     \* DEMO_REEL_PRODUCER_IDENTITY
    Malformed,    \* what is no sha256 in hex
    None,
    Environments  \* the settings that operators try to deploy

ASSUME AccessAssumption ==
    /\ DemoReel \in Names
    /\ None \notin Keys \cup Users \cup {Malformed}
    /\ Malformed \notin Keys

VARIABLE settings

Entry == [name : Names \cup {None}, key : Keys \cup {Malformed}]

\* required: MACHINE_AUTH_REQUIRED; publishable: SUPABASE_PUBLISHABLE_KEY is set.
Settings ==
    [service : Seq(Entry), worker : Seq(Entry), demo : Keys \cup {None, Malformed},
     required : BOOLEAN, auth : BOOLEAN, admins : SUBSET Users, publishable : BOOLEAN]

ASSUME EnvironmentsAssumption == Environments \subseteq Settings

-----------------------------------------------------------------------------
(* Settings.                                                               *)

\* A dict: of two entries with one hash, the last names it.
NamedKeyHashes(entries) ==
    [k \in {entries[i].key : i \in DOMAIN entries} |->
        entries[Max({i \in DOMAIN entries : entries[i].key = k})].name]

ServiceKeyHashes(s) ==
    LET listed == NamedKeyHashes(s.service)
    IN IF s.demo = None THEN listed
       ELSE [k \in DOMAIN listed \cup {s.demo} |-> IF k = s.demo THEN DemoReel ELSE listed[k]]

WorkerKeyHashes(s) == NamedKeyHashes(s.worker)

WellFormed(entries) ==
    \A i \in DOMAIN entries : entries[i].name # None /\ entries[i].key # Malformed

\* Beside DEMO_REEL_PRODUCER_API_KEY_HASH, SERVICE_API_KEYS may only repeat it.
DemoReelAgrees(s) ==
    s.demo # None =>
        \A i \in DOMAIN s.service : s.service[i].key = s.demo <=> s.service[i].name = DemoReel

\* validate_auth_configuration raises nothing.
Accepted(s) ==
    /\ WellFormed(s.service) /\ WellFormed(s.worker)
    /\ s.demo # Malformed
    /\ DemoReelAgrees(s)
    /\ s.required => DOMAIN ServiceKeyHashes(s) # {} /\ DOMAIN WorkerKeyHashes(s) # {}
    /\ s.auth => s.publishable /\ s.admins # {}

-----------------------------------------------------------------------------
(* Decisions: the status of the refusal, or who the caller is.             *)

Refused(status) == [status |-> status, as |-> None]
Granted(as) == [status |-> 200, as |-> as]

Anonymous == "rollout-anonymous"
LocalAdmin == "auth-disabled"

ByName(key, hashes) == IF key \in DOMAIN hashes THEN Granted(hashes[key]) ELSE Refused(401)

\* Mutant: while keys are not required, none is looked at.
RequireMachineKeyOnceRequired(s, key, hashes) ==
    IF s.required /\ key # None THEN ByName(key, hashes)
    ELSE IF s.required THEN Refused(401)
    ELSE Granted(Anonymous)

\* A presented key is validated even while none is required.
RequireMachineKey(s, key, hashes) ==
    IF key # None THEN ByName(key, hashes)
    ELSE IF s.required THEN Refused(401)
    ELSE Granted(Anonymous)

RequireProducer(s, key) == RequireMachineKey(s, key, ServiceKeyHashes(s))

RequireProducerStrict(s, key) ==
    IF key = None THEN Refused(401) ELSE RequireProducer(s, key)

RequireWorker(s, key) ==
    IF key = None \/ key \in DOMAIN WorkerKeyHashes(s)
    THEN RequireMachineKey(s, key, WorkerKeyHashes(s))
    ELSE IF key \in UserKeys THEN Granted(key)
    ELSE Refused(401)

\* A bearer token stands for its user.  The identity service answers with the
\* user, rejects the token, or is not there.
Answers == {"user", "rejected", "unavailable"}

CurrentUser(s, bearer, answer) ==
    IF ~s.auth THEN Granted(LocalAdmin)
    ELSE IF bearer = None \/ answer = "rejected" THEN Refused(401)
    ELSE IF answer = "unavailable" THEN Refused(503)
    ELSE Granted(bearer)

RequireAdmin(s, bearer, answer) ==
    LET user == CurrentUser(s, bearer, answer)
    IN IF user.status = 200 /\ s.auth /\ user.as \notin s.admins THEN Refused(403) ELSE user

\* An admin's session or a producer key; a presented key alone decides.
RequireAdminOrService(s, key, bearer, answer) ==
    IF key # None THEN ByName(key, ServiceKeyHashes(s)) ELSE RequireAdmin(s, bearer, answer)

-----------------------------------------------------------------------------
\* Mutant: the validator does not run.
DeployUnchecked ==
    /\ settings' \in Environments
    /\ settings' # settings

\* A new deployment.
Deploy ==
    /\ settings' \in {s \in Environments : Accepted(s)}
    /\ settings' # settings

AccessInit == settings \in {s \in Environments : Accepted(s)}

-----------------------------------------------------------------------------
MachineDecisions(s, key) ==
    <<RequireProducer(s, key), RequireProducerStrict(s, key), RequireWorker(s, key),
      RequireAdminOrService(s, key, None, "user")>>

\* What a rollout changes: the hash of Demo Reel and the enforcement switch.
IsRollout(s, t) == t = [s EXCEPT !.demo = t.demo, !.required = t.required]

\* docs/authentication.md, the additive rollout and the staged enforcement: a
\* key that worked, or that is not the one rolled out, is the same caller on
\* every route before and after (a hash of Demo Reel that is replaced is revoked).
RolloutsLeaveKeysAlone ==
    [][IsRollout(settings, settings') =>
         \A key \in Keys \ {settings.demo} :
             RequireProducer(settings, key).status = 200 \/ key # settings'.demo =>
                 MachineDecisions(settings', key) = MachineDecisions(settings, key)]_settings
=============================================================================
