------------------------------ MODULE Startup ------------------------------
(***************************************************************************)
(* From a configuration file to a token OpenBao has confirmed: run and     *)
(* authenticate, bao.New, withRetry and the login of each method, over the *)
(* calls of Transport, with the service manager that restarts a start that *)
(* failed and an operator who rotates credentials at any moment.           *)
(*                                                                         *)
(* A credential is a version of it; OpenBao accepts one version at a time. *)
(***************************************************************************)
EXTENDS Transport, FiniteSets

CONSTANTS
  Files,       \* configuration files: [openbao] and the timeout of [server]
  Addresses,   \* schemes BAO_ADDR can have
  MaxVersion,  \* bound on the versions of a credential
  MaxChanges   \* bound on what happens around the daemon

ASSUME StartupAssumptions ==
  /\ Addresses \subseteq Scheme
  /\ MaxVersion \in Nat \ {0} /\ MaxChanges \in Nat

VARIABLES
  file, address,
  store,     \* the version each source of a credential holds; 0 is unreadable
  accepted,  \* OpenBao: the version it accepts
  healthy,   \* OpenBao and the way to it are in order
  changes,   \* how much has happened around the daemon
  pc,        \* where run stands
  held,      \* the token or client certificate New took
  sent       \* the version the call under way presents

vars == <<call, file, address, store, accepted, healthy, changes, pc, held,
          sent>>
around == <<file, address, store, accepted, healthy, changes>>

-----------------------------------------------------------------------------
\* The configuration.  An option that may be absent is a set of at most one
\* value; durations are in half milliseconds.

Millisecond == 2

Options ==
  [token   |-> {"token_file"},
   approle |-> {"role_id", "role_id_file", "secret_id_file"},
   cert    |-> {"cert_role"},
   jwt     |-> {"jwt_file", "jwt_role"}]
Methods == DOMAIN Options
Keys == {"mount"} \cup UNION {Options[m] : m \in Methods}

ASSUME FilesAssumption ==
  Files \subseteq [method : SUBSET STRING, keys : SUBSET Keys,
                  timeout : SUBSET Int, window : SUBSET Int]

\* applyDefaults.
Method(f) == IF f.method = {} THEN "token" ELSE CHOOSE m \in f.method : TRUE
KeysOf(f) == IF Method(f) # "token" THEN f.keys \cup {"mount"} ELSE f.keys

CheckDuration(d) == d >= 0 /\ (d # 0 => d >= Millisecond)

\* Mutant: the options of another method are let through.
ValidWithForeignKeys(f) ==
  LET m == Method(f)  keys == KeysOf(f) IN
  /\ m \in Methods
  /\ m = "token" => "mount" \notin keys
  /\ m = "approle" =>
       /\ Cardinality(keys \cap {"role_id", "role_id_file"}) = 1
       /\ "secret_id_file" \in keys
  /\ m = "jwt" => "jwt_file" \in keys
  /\ \A d \in f.timeout \cup f.window : CheckDuration(d) /\ d # 0

\* validate, on the file with its defaults.
Valid(f) ==
  LET m == Method(f)  keys == KeysOf(f) IN
  /\ m \in Methods
  /\ \A other \in Methods \ {m} : keys \cap Options[other] = {}
  /\ m = "token" => "mount" \notin keys
  /\ m = "approle" =>
       /\ Cardinality(keys \cap {"role_id", "role_id_file"}) = 1
       /\ "secret_id_file" \in keys
  /\ m = "jwt" => "jwt_file" \in keys
  /\ \A d \in f.timeout \cup f.window : CheckDuration(d) /\ d # 0

\* valueOrFile: a file wins over a literal.
ValueOrFile(keys, literal, name) ==
  IF name \in keys THEN {name} ELSE keys \cap literal

\* The options the login of a file's method looks at.
Read(f) ==
  LET keys == KeysOf(f) IN
  CASE Method(f) = "token"   -> ValueOrFile(keys, {}, "token_file")
    [] Method(f) = "approle" ->
         ValueOrFile(keys, {"role_id"}, "role_id_file")
         \cup ValueOrFile(keys, {}, "secret_id_file") \cup {"mount"}
    [] Method(f) = "cert"    -> (keys \cap {"cert_role"}) \cup {"mount"}
    [] Method(f) = "jwt"     ->
         ValueOrFile(keys, {}, "jwt_file") \cup (keys \cap {"jwt_role"})
         \cup {"mount"}

CredentialFiles == {"token_file", "role_id_file", "secret_id_file", "jwt_file"}
Sources == CredentialFiles \cup {"BAO_TOKEN", "BAO_CLIENT_CERT"}

\* Where a method's confidential credential comes from, and what is kept from
\* the start of the process on.
Secret(f) ==
  CASE Method(f) = "token"   -> IF "token_file" \in f.keys THEN "token_file"
                                                           ELSE "BAO_TOKEN"
    [] Method(f) = "approle" -> "secret_id_file"
    [] Method(f) = "cert"    -> "BAO_CLIENT_CERT"
    [] Method(f) = "jwt"     -> "jwt_file"

TakenOnce(f) == Method(f) \in {"token", "cert"}

-----------------------------------------------------------------------------
TypeOK ==
  /\ call \in Call
  /\ file \in Files /\ address \in Addresses
  /\ store \in [Sources -> 0..MaxVersion] /\ accepted \in 1..MaxVersion
  /\ healthy \in BOOLEAN /\ changes \in 0..MaxChanges
  /\ pc \in {"load", "connect", "attempt", "calling", "backoff", "ready",
             "failed", "stopped"}
  /\ held \in 0..MaxVersion /\ sent \in 0..MaxVersion

Init ==
  /\ call = NoCall
  /\ file \in Files /\ address \in Addresses
  /\ \E v \in 0..1 : store = [s \in Sources |-> v]
  /\ accepted = 1 /\ healthy \in BOOLEAN /\ changes = 0
  /\ pc = "load" /\ held = 0 /\ sent = 0

-----------------------------------------------------------------------------
\* The surroundings.

Change ==
  /\ changes < MaxChanges /\ pc # "stopped"
  /\ changes' = changes + 1
  /\ UNCHANGED <<call, file, address, pc, held, sent>>

\* OpenBao takes another version of the credential.
Rotate ==
  /\ Change /\ accepted < MaxVersion
  /\ accepted' = accepted + 1
  /\ UNCHANGED <<store, healthy>>

\* The operator writes a credential, or breaks it.
Write ==
  /\ Change
  /\ \E s \in {Secret(file)} \cup (file.keys \cap CredentialFiles),
        v \in {0, accepted} : store' = [store EXCEPT ![s] = v]
  /\ UNCHANGED <<accepted, healthy>>

\* OpenBao goes down, is sealed, locks the role out, or comes back.
Turn ==
  /\ Change
  /\ healthy' = ~healthy
  /\ UNCHANGED <<store, accepted>>

\* OpenBao in order answers about the credential; anything else can answer
\* anything, except yes to a credential that is wrong.
Serve ==
  /\ pc = "calling"
  /\ \/ /\ healthy
        /\ \E size \in 0..Limit, declared \in BOOLEAN :
             Respond(IF sent = accepted THEN "yes" ELSE "no", size, declared)
     \/ /\ ~healthy
        /\ \E says \in Says, size \in 0..MaxSize, declared \in BOOLEAN :
             /\ says = "yes" => sent = accepted
             /\ Respond(says, size, declared)
     \/ ~healthy /\ (NoResponse \/ Redirect \/ BreakBody)
     \/ ReadBody
  /\ UNCHANGED <<around, pc, held, sent>>

-----------------------------------------------------------------------------
\* The daemon.

Load ==
  /\ pc = "load"
  /\ pc' = IF Valid(file) THEN "connect" ELSE "failed"
  /\ UNCHANGED <<call, around, held, sent>>

\* bao.New up to the first attempt: a token is read once, and the library
\* takes the client certificate now.
Connect ==
  /\ pc = "connect"
  /\ held' = IF TakenOnce(file) THEN store[Secret(file)] ELSE 0
  /\ pc' = IF Method(file) = "token" /\ held' = 0 THEN "failed" ELSE "attempt"
  /\ UNCHANGED <<call, around, sent>>

\* login reads its files at every attempt; an unreadable one is definitive.
\* An option that is not there is sent empty.
Attempt ==
  LET presented == IF TakenOnce(file) THEN held
                   ELSE IF Secret(file) \in Read(file) THEN store[Secret(file)]
                   ELSE 0
      unreadable == \/ Method(file) = "cert" /\ held = 0
                    \/ /\ ~TakenOnce(file)
                       /\ \E s \in Read(file) \cap CredentialFiles :
                            store[s] = 0
  IN
  /\ pc = "attempt"
  /\ \/ unreadable /\ pc' = "failed" /\ UNCHANGED <<call, sent>>
     \/ /\ ~unreadable
        /\ Send(address) /\ sent' = presented
        /\ pc' = "calling"
  /\ UNCHANGED <<around, held>>

\* Mutant: only a success ends the loop.
AnswerRetrying ==
  /\ pc = "calling" /\ call.at = "done"
  /\ pc' = IF call.how = "yes" THEN "ready" ELSE "backoff"
  /\ call' = NoCall
  /\ UNCHANGED <<around, held, sent>>

\* withRetry: an error a retry cannot fix ends it, any other is waited out.
Answer ==
  /\ pc = "calling" /\ call.at = "done"
  /\ pc' = IF ErrorOf[call.how] = Nil THEN "ready"
           ELSE IF LoginRetryable(ErrorOf[call.how]) THEN "backoff"
           ELSE "failed"
  /\ call' = NoCall
  /\ UNCHANGED <<around, held, sent>>

BackoffEnds ==
  /\ pc = "backoff"
  /\ pc' = "attempt"
  /\ UNCHANGED <<call, around, held, sent>>

\* The service manager starts the daemon again.
Restart ==
  /\ pc = "failed"
  /\ pc' = "load" /\ held' = 0 /\ sent' = 0
  /\ UNCHANGED <<call, around>>

\* SIGTERM, whatever the daemon is at.
Stop ==
  /\ pc # "stopped"
  /\ pc' = "stopped" /\ call' = NoCall
  /\ UNCHANGED <<around, held, sent>>

Daemon ==
  Serve \/ Load \/ Connect \/ Attempt \/ Answer \/ BackoffEnds \/ Restart

Next == Rotate \/ Write \/ Turn \/ Daemon \/ Stop

\* A call ends, because the client library gives it a timeout; the process and
\* the service manager are scheduled.
Spec == Init /\ [][Next]_vars /\ WF_vars(Daemon)

-----------------------------------------------------------------------------
\* Properties.

\* A file that loads has no option that is silently without effect: what
\* validate lets through is what the login of that method reads.
EveryOptionCounts ==
  pc \notin {"load", "failed", "stopped"} => file.keys \subseteq Read(file)

\* A call that ends in an outage is retried for as long as it takes, and one
\* that ends in what no retry can fix is not sent again by this process,
\* whatever else the error chain holds (docs/operations.md, Starting).
Decided ==
  pc = "calling" /\ pc' \notin {"calling", "stopped"} =>
    /\ call.how \in {"unreachable", "slow", "down", "throttled"}
         => pc' = "backoff"
    /\ call.how \in {"no", "cert", "plaintext", "large"}
         => pc' = "failed"

StartIsDecided == [][Decided]_vars

\* Neither a token nor a login leaves in the clear for an address that is on
\* https, over any number of redirects.
NothingInTheClear ==
  address = "https" /\ call # NoCall => call.scheme = "https"

\* Everything a start needs is in order.
InOrder ==
  /\ Valid(file) /\ healthy
  /\ store[Secret(file)] = accepted
  /\ \A s \in file.keys \cap CredentialFiles : store[s] # 0

\* A corrected credential is picked up without further action: once OpenBao,
\* the file and the credential are in order, the start succeeds, through
\* attempts and restarts, whatever went before (the unit's Restart=).
CorrectedIsPickedUp ==
  <>[]InOrder => <>(pc \in {"ready", "stopped"})

\* The documents' outage, taken at its word: it includes an OpenBao that goes
\* away in the middle of its answer.
OutageIsWaitedOut ==
  [][pc = "calling" /\ pc' \notin {"calling", "stopped"} =>
       (call.how = "broken" => pc' = "backoff")]_vars
=============================================================================
