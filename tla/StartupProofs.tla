--------------------------- MODULE StartupProofs ---------------------------
(***************************************************************************)
(* Proofs about one call to OpenBao and about the start that is made of    *)
(* them, for every limit, configuration file and change around the daemon. *)
(***************************************************************************)
EXTENDS Startup, FiniteSetTheorems, TLAPS

\* What is still to be read of a body, and what was, make up the allowance.
BodyCounted ==
  call.at = "reading" =>
    call.got + call.left = Limit + 1 /\ call.got <= call.size

\* A start that got past the file has one that is valid.
FileLoaded == pc \notin {"load", "failed", "stopped"} => Valid(file)

StartInv ==
  /\ TypeOK /\ BodyCounted /\ BodyWholeOrRefused
  /\ NothingInTheClear /\ FileLoaded

-----------------------------------------------------------------------------
\* The option names are the nine of the configuration.
LEMMA KeyNames ==
  /\ Methods = {"token", "approle", "cert", "jwt"}
  /\ Keys = {"token_file", "role_id", "role_id_file", "secret_id_file",
             "cert_role", "jwt_file", "jwt_role", "mount"}
<1>1. Methods = {"token", "approle", "cert", "jwt"}
  BY DEF Methods, Options
<1>2. /\ Options["token"] = {"token_file"}
      /\ Options["approle"] = {"role_id", "role_id_file", "secret_id_file"}
      /\ Options["cert"] = {"cert_role"}
      /\ Options["jwt"] = {"jwt_file", "jwt_role"}
  BY DEF Options
<1>3. UNION {Options[m] : m \in Methods} =
        Options["token"] \cup Options["approle"] \cup Options["cert"]
        \cup Options["jwt"]
  BY <1>1
<1> QED  BY <1>1, <1>2, <1>3 DEF Keys

\* A file with one of the two options of a role ID does not have the other.
LEMMA OneRoleId ==
  ASSUME NEW keys, Cardinality(keys \cap {"role_id", "role_id_file"}) = 1
  PROVE  ~({"role_id", "role_id_file"} \subseteq keys)
<1> SUFFICES ASSUME {"role_id", "role_id_file"} \subseteq keys PROVE FALSE
  OBVIOUS
<1>1. keys \cap {"role_id", "role_id_file"} = {"role_id", "role_id_file"}
  OBVIOUS
<1>2. IsFiniteSet({"role_id"}) /\ Cardinality({"role_id"}) = 1
  BY FS_Singleton
<1>3. {"role_id", "role_id_file"} = {"role_id"} \cup {"role_id_file"}
  OBVIOUS
<1>4. Cardinality({"role_id"} \cup {"role_id_file"}) = 1 + 1
  BY <1>2, FS_AddElement
<1> QED  BY <1>1, <1>3, <1>4

\* What validate lets through is what the login of the method reads.
LEMMA ValidIsRead ==
  ASSUME NEW f \in Files, Valid(f)
  PROVE  f.keys \subseteq Read(f)
<1> DEFINE m == Method(f)
<1>1. f.keys \subseteq Keys
  BY FilesAssumption
<1>2. /\ m \in {"token", "approle", "cert", "jwt"}
      /\ \A other \in Methods \ {m} : KeysOf(f) \cap Options[other] = {}
      /\ f.keys \subseteq KeysOf(f)
      /\ m = "token" => "mount" \notin KeysOf(f)
      /\ m = "approle" => ~({"role_id", "role_id_file"} \subseteq KeysOf(f))
  BY KeyNames, OneRoleId DEF Valid, KeysOf
<1>3. CASE m = "token"
  <2>1. f.keys \subseteq {"token_file"}
    BY <1>1, <1>2, <1>3, KeyNames DEF Options
  <2> QED  BY <1>2, <1>3, <2>1 DEF Read, ValueOrFile
<1>4. CASE m = "approle"
  <2>1. f.keys \subseteq {"role_id", "role_id_file", "secret_id_file", "mount"}
    BY <1>1, <1>2, <1>4, KeyNames DEF Options
  <2> QED  BY <1>2, <1>4, <2>1 DEF Read, ValueOrFile
<1>5. CASE m = "cert"
  <2>1. f.keys \subseteq {"cert_role", "mount"}
    BY <1>1, <1>2, <1>5, KeyNames DEF Options
  <2> QED  BY <1>2, <1>5, <2>1 DEF Read, ValueOrFile
<1>6. CASE m = "jwt"
  <2>1. f.keys \subseteq {"jwt_file", "jwt_role", "mount"}
    BY <1>1, <1>2, <1>6, KeyNames DEF Options
  <2> QED  BY <1>2, <1>6, <2>1 DEF Read, ValueOrFile
<1> QED  BY <1>2, <1>3, <1>4, <1>5, <1>6

-----------------------------------------------------------------------------
\* The methods' secrets come from the sources there are.
LEMMA SecretIsASource ==
  ASSUME NEW f \in Files, Valid(f)
  PROVE  Secret(f) \in Sources
BY DEF Valid, Secret, Sources, CredentialFiles, Methods, Options

\* The start's own invariant in the initial states.
LEMMA StartInit == Init => StartInv
BY StartupAssumptions
   DEF Init, StartInv, TypeOK, BodyCounted, BodyWholeOrRefused,
       NothingInTheClear, FileLoaded, NoCall, Call

\* What is known of the call while it is sent or read.
LEMMA CallShape ==
  ASSUME call \in Call
  PROVE  /\ call.at = "sent" => call \in Sent
         /\ call.at = "reading" => call \in Reading
         /\ call.at = "done" => call \in Ended
         /\ call # NoCall =>
              call.at \in {"sent", "reading", "done"} /\ call.scheme \in Scheme
BY DEF Call, NoCall, Sent, Reading, Ended

LEMMA HowKinds ==
  DOMAIN ErrorOf = Says \cup {"unreachable", "slow", "cert", "plaintext",
                              "large", "broken"}
BY DEF ErrorOf, Says

\* What a step of OpenBao's side leaves of a call.
CallSound ==
  /\ call \in Call /\ call # NoCall
  /\ BodyCounted /\ BodyWholeOrRefused
  /\ NothingInTheClear

\* No response: the call keeps its scheme and is over.
LEMMA NoResponseStep ==
  ASSUME StartInv, NoResponse, UNCHANGED address PROVE CallSound'
<1>1. call \in Call /\ call.scheme \in Scheme /\ call # NoCall
  BY CallShape DEF StartInv, TypeOK, NoResponse, NoCall
<1>2. PICK how \in {"unreachable", "cert", "slow"} :
        call' = [at |-> "done", scheme |-> call.scheme, how |-> how,
                 size |-> 0, got |-> 0]
  BY DEF NoResponse, Done
<1>3. call' \in Call
  BY <1>1, <1>2, HowKinds, TransportAssumptions DEF Call, Ended
<1> QED  BY <1>1, <1>2, <1>3
         DEF CallSound, StartInv, BodyCounted, BodyWholeOrRefused, NoCall,
             NothingInTheClear, Says

\* A redirect that is followed stays on https; one that is refused ends the
\* call on the scheme it had.
LEMMA RedirectStep ==
  ASSUME StartInv, Redirect, UNCHANGED address PROVE CallSound'
<1>1. /\ call \in Call /\ call.scheme \in Scheme /\ call # NoCall
      /\ call.at = "sent" /\ call.hops \in 0..MaxHops /\ call.hops < MaxHops
  BY CallShape DEF StartInv, TypeOK, Redirect, NoCall, Sent
<1>2. PICK to \in Scheme :
        \/ /\ CheckDowngrade(call.scheme, to)
           /\ call' = [call EXCEPT !.scheme = to, !.hops = @ + 1]
        \/ call' = [at |-> "done", scheme |-> call.scheme, how |-> "plaintext",
                    size |-> 0, got |-> 0]
  BY DEF Redirect, Done
<1>3. CASE call' = [call EXCEPT !.scheme = to, !.hops = @ + 1]
           /\ CheckDowngrade(call.scheme, to)
  <2>1. call \in Sent
    BY <1>1, CallShape
  <2>2. call' = [at |-> "sent", scheme |-> to, hops |-> call.hops + 1]
    BY <1>3, <2>1 DEF Sent
  <2>3. call' \in Call
    BY <1>1, <2>2, TransportAssumptions DEF Call, Sent
  <2> QED  BY <1>1, <1>3, <2>2, <2>3
           DEF CallSound, StartInv, BodyCounted, BodyWholeOrRefused, NoCall,
               NothingInTheClear, CheckDowngrade
<1>4. CASE call' = [at |-> "done", scheme |-> call.scheme,
                    how |-> "plaintext", size |-> 0, got |-> 0]
  <2>1. call' \in Call
    BY <1>1, <1>4, HowKinds, TransportAssumptions DEF Call, Ended
  <2> QED  BY <1>1, <1>4, <2>1
           DEF CallSound, StartInv, BodyCounted, BodyWholeOrRefused, NoCall,
               NothingInTheClear, Says
<1> QED  BY <1>2, <1>3, <1>4

\* The head of a response: the body starts with the whole allowance.
LEMMA RespondStep ==
  ASSUME StartInv, UNCHANGED address,
         NEW says \in Says, NEW size \in 0..MaxSize, NEW declared \in BOOLEAN,
         Respond(says, size, declared)
  PROVE  CallSound'
<1>1. call \in Call /\ call.scheme \in Scheme /\ call # NoCall
  BY CallShape DEF StartInv, TypeOK, Respond, NoCall
<1>2. Limit \in Nat /\ MaxSize \in Nat
  BY TransportAssumptions
<1>3. CASE /\ size > Limit
           /\ call' = [at |-> "done", scheme |-> call.scheme, how |-> "large",
                       size |-> size, got |-> 0]
  <2>1. call' \in Call
    BY <1>1, <1>2, <1>3, HowKinds DEF Call, Ended
  <2> QED  BY <1>1, <1>3, <2>1
           DEF CallSound, StartInv, BodyCounted, BodyWholeOrRefused, NoCall,
               NothingInTheClear, Says
<1>4. CASE call' = [at |-> "reading", scheme |-> call.scheme, says |-> says,
                    size |-> size, got |-> 0, left |-> Limit + 1]
  <2>1. call' \in Call
    BY <1>1, <1>2, <1>4 DEF Call, Reading
  <2> QED  BY <1>1, <1>2, <1>4, <2>1
           DEF CallSound, StartInv, BodyCounted, BodyWholeOrRefused, NoCall,
               NothingInTheClear
<1> QED  BY <1>3, <1>4 DEF Respond, Done, Allowance

\* A read of the body: what was read and what may still be read go together,
\* so an exhausted allowance means a body above the limit.
LEMMA ReadBodyStep ==
  ASSUME StartInv, ReadBody, UNCHANGED address PROVE CallSound'
<1>1. /\ call \in Call /\ call # NoCall /\ call.at = "reading"
      /\ call.scheme \in Scheme /\ call.says \in Says
      /\ call.size \in 0..MaxSize /\ call.got \in 0..MaxSize
      /\ call.left \in 0..(Limit + 1)
      /\ call.got + call.left = Limit + 1 /\ call.got <= call.size
  <2>1. call \in Call /\ call.at = "reading"
    BY DEF StartInv, TypeOK, ReadBody
  <2>2. call \in Reading /\ call # NoCall
    BY <2>1, CallShape DEF NoCall
  <2> QED  BY <2>1, <2>2 DEF Reading, StartInv, BodyCounted
<1>2. Limit \in Nat /\ MaxSize \in Nat
  BY TransportAssumptions
<1>3. CASE /\ call.left <= 0
           /\ call' = [at |-> "done", scheme |-> call.scheme, how |-> "large",
                       size |-> call.size, got |-> call.got]
  <2>1. call' \in Call
    BY <1>1, <1>3, HowKinds DEF Call, Ended
  <2> QED  BY <1>1, <1>2, <1>3, <2>1
           DEF CallSound, StartInv, BodyCounted, BodyWholeOrRefused, NoCall,
               NothingInTheClear, Says
<1>4. ASSUME NEW n \in 0..(call.size - call.got), n <= call.left,
             call' = [call EXCEPT !.got = @ + n, !.left = @ - n]
      PROVE  CallSound'
  <2>1. call \in Reading
    BY <1>1, CallShape
  <2>2. call' = [at |-> "reading", scheme |-> call.scheme, says |-> call.says,
                 size |-> call.size, got |-> call.got + n,
                 left |-> call.left - n]
    BY <1>4, <2>1 DEF Reading
  <2>3. call.got + n \in 0..MaxSize /\ call.left - n \in 0..(Limit + 1)
    BY <1>1, <1>2, <1>4
  <2>4. call' \in Call
    BY <1>1, <2>2, <2>3 DEF Call, Reading
  <2> QED  BY <1>1, <1>2, <1>4, <2>2, <2>4
           DEF CallSound, StartInv, BodyCounted, BodyWholeOrRefused, NoCall,
               NothingInTheClear
<1>5. ASSUME NEW n \in 0..(call.size - call.got), n <= call.left,
             call.got + n = call.size,
             call' = [at |-> "done", scheme |-> call.scheme, how |-> call.says,
                      size |-> call.size, got |-> call.size]
      PROVE  CallSound'
  <2>1. call' \in Call
    BY <1>1, <1>5, HowKinds DEF Call, Ended
  <2>2. call.size <= Limit + 1
    BY <1>1, <1>2, <1>5
  <2> QED  BY <1>1, <1>2, <1>5, <2>1, <2>2
           DEF CallSound, StartInv, BodyCounted, BodyWholeOrRefused, NoCall,
               NothingInTheClear, Says
<1> QED  BY <1>3, <1>4, <1>5 DEF ReadBody, Done

\* A body that breaks off is taken for nothing.
LEMMA BreakBodyStep ==
  ASSUME StartInv, BreakBody, UNCHANGED address PROVE CallSound'
<1>1. /\ call \in Call /\ call # NoCall /\ call.scheme \in Scheme
      /\ call.size \in 0..MaxSize /\ call.got \in 0..MaxSize
  <2>1. call \in Call /\ call.at = "reading" /\ call # NoCall
    BY DEF StartInv, TypeOK, BreakBody, NoCall
  <2>2. call \in Reading
    BY <2>1, CallShape
  <2> QED  BY <2>1, <2>2 DEF Reading
<1>2. PICK how \in {"broken", "slow"} :
        call' = [at |-> "done", scheme |-> call.scheme, how |-> how,
                 size |-> call.size, got |-> call.got]
  BY DEF BreakBody, Done
<1>3. call' \in Call
  BY <1>1, <1>2, HowKinds DEF Call, Ended
<1> QED  BY <1>1, <1>2, <1>3
         DEF CallSound, StartInv, BodyCounted, BodyWholeOrRefused, NoCall,
             NothingInTheClear, Says

\* OpenBao's side of a call, whatever it answers.
LEMMA ServeStep == ASSUME StartInv, Serve PROVE CallSound'
<1>1. UNCHANGED address /\ 0..Limit \subseteq 0..MaxSize
  BY TransportAssumptions DEF Serve, around
<1>2. ASSUME NEW size \in 0..MaxSize, NEW declared \in BOOLEAN,
             NEW says \in Says, Respond(says, size, declared)
      PROVE  CallSound'
  BY <1>1, <1>2, RespondStep
<1>3. "yes" \in Says /\ "no" \in Says
  BY DEF Says
<1> QED  BY <1>1, <1>2, <1>3, NoResponseStep, RedirectStep, ReadBodyStep,
            BreakBodyStep DEF Serve

\* The surroundings and the daemon keep the call, or end it.
LEMMA StartStep == StartInv /\ [Next]_vars => StartInv'
<1> SUFFICES ASSUME StartInv, [Next]_vars PROVE StartInv'
  OBVIOUS
<1> USE DEF StartInv
<1>1. ASSUME UNCHANGED <<call, address>>
      PROVE  BodyCounted' /\ BodyWholeOrRefused' /\ NothingInTheClear'
  BY <1>1 DEF BodyCounted, BodyWholeOrRefused, NothingInTheClear
<1>2. ASSUME call' = NoCall
      PROVE  /\ call' \in Call
             /\ BodyCounted' /\ BodyWholeOrRefused' /\ NothingInTheClear'
  BY <1>2 DEF Call, BodyCounted, BodyWholeOrRefused, NothingInTheClear, NoCall
<1>3. CASE Rotate
  BY <1>1, <1>3, StartupAssumptions DEF Rotate, Change, TypeOK, FileLoaded
<1>4. CASE Write
  <2>1. store' \in [Sources -> 0..MaxVersion]
    <3>1. PICK s \in {Secret(file)} \cup (file.keys \cap CredentialFiles),
               v \in {0, accepted} : store' = [store EXCEPT ![s] = v]
      BY <1>4 DEF Write
    <3>2. v \in 0..MaxVersion
      BY StartupAssumptions DEF TypeOK
    <3> QED  BY <3>1, <3>2 DEF TypeOK
  <2>2. changes' \in 0..MaxChanges
    BY <1>4, StartupAssumptions DEF Write, Change, TypeOK
  <2> QED  BY <1>1, <1>4, <2>1, <2>2 DEF Write, Change, TypeOK, FileLoaded
<1>5. CASE Turn
  BY <1>1, <1>5, StartupAssumptions DEF Turn, Change, TypeOK, FileLoaded
<1>6. CASE Serve
  BY <1>6, ServeStep DEF CallSound, Serve, around, TypeOK, FileLoaded
<1>7. CASE Load
  BY <1>1, <1>7 DEF Load, around, TypeOK, FileLoaded
<1>8. CASE Connect
  <2>1. Secret(file) \in Sources
    BY <1>8, SecretIsASource DEF Connect, FileLoaded, TypeOK
  <2>2. held' \in 0..MaxVersion
    BY <1>8, <2>1, StartupAssumptions DEF Connect, TypeOK
  <2> QED  BY <1>1, <1>8, <2>2 DEF Connect, around, TypeOK, FileLoaded
<1>9. CASE Attempt
  <2>1. Secret(file) \in Sources
    BY <1>9, SecretIsASource DEF Attempt, FileLoaded, TypeOK
  <2>2. sent' \in 0..MaxVersion
    BY <1>9, <2>1, StartupAssumptions DEF Attempt, TypeOK
  <2>3. call' = call \/ call' = [at |-> "sent", scheme |-> address, hops |-> 0]
    BY <1>9 DEF Attempt, Send
  <2>4. /\ call' \in Call /\ BodyCounted' /\ BodyWholeOrRefused'
        /\ NothingInTheClear'
    <3>1. address \in Scheme /\ 0 \in 0..MaxHops /\ address' = address
      BY <1>9, StartupAssumptions, TransportAssumptions
         DEF TypeOK, Attempt, around
    <3> QED  BY <1>1, <2>3, <3>1
             DEF TypeOK, Call, Sent, BodyCounted, BodyWholeOrRefused,
                 NothingInTheClear
  <2> QED  BY <1>9, <2>2, <2>4 DEF Attempt, around, TypeOK, FileLoaded
<1>10. CASE Answer
  BY <1>2, <1>10 DEF Answer, around, TypeOK, FileLoaded
<1>11. CASE BackoffEnds
  BY <1>1, <1>11 DEF BackoffEnds, around, TypeOK, FileLoaded
<1>12. CASE Restart
  BY <1>1, <1>12, StartupAssumptions DEF Restart, around, TypeOK, FileLoaded
<1>13. CASE Stop
  BY <1>2, <1>13 DEF Stop, around, TypeOK, FileLoaded
<1>14. CASE UNCHANGED vars
  BY <1>1, <1>14 DEF vars, TypeOK, FileLoaded
<1> QED  BY <1>3, <1>4, <1>5, <1>6, <1>7, <1>8, <1>9, <1>10, <1>11, <1>12,
            <1>13, <1>14 DEF Next, Daemon

-----------------------------------------------------------------------------
\* The start's state is well typed, for every file, limit and address.
THEOREM StartTypeCorrect == Spec => []TypeOK
<1>1. StartInv => TypeOK
  BY DEF StartInv
<1> QED  BY StartInit, StartStep, <1>1, PTL DEF Spec

\* However its reads are cut, no part of a body is taken for the whole, and
\* none within the limit is refused for its size.
THEOREM BodiesAreWhole == Spec => []BodyWholeOrRefused
<1>1. StartInv => BodyWholeOrRefused
  BY DEF StartInv
<1> QED  BY StartInit, StartStep, <1>1, PTL DEF Spec

\* Over any number of redirects, nothing leaves https for plaintext.
THEOREM NothingLeavesHttps == Spec => []NothingInTheClear
<1>1. StartInv => NothingInTheClear
  BY DEF StartInv
<1> QED  BY StartInit, StartStep, <1>1, PTL DEF Spec

\* No option of a file that loads is without effect, for any set of files.
THEOREM OptionsCount == Spec => []EveryOptionCounts
<1>1. StartInv => EveryOptionCounts
  BY ValidIsRead DEF StartInv, TypeOK, FileLoaded, EveryOptionCounts
<1> QED  BY StartInit, StartStep, <1>1, PTL DEF Spec

\* What ends a call decides whether it is sent again.
THEOREM StartsAreDecided == Spec => StartIsDecided
<1>1. ASSUME StartInv, Next PROVE Decided
  <2>1. CASE Answer
    <3>1. /\ \A how \in {"unreachable", "slow", "down", "throttled"} :
               ErrorOf[how] # Nil /\ LoginRetryable(ErrorOf[how])
          /\ \A how \in {"no", "cert", "plaintext", "large"} :
               ErrorOf[how] # Nil /\ ~LoginRetryable(ErrorOf[how])
      <4>1. /\ ErrorOf["unreachable"] = Unreachable
            /\ ErrorOf["slow"] = Deadline /\ ErrorOf["down"] = ServerError
            /\ ErrorOf["throttled"] = Throttled
            /\ ErrorOf["no"] = Forbidden /\ ErrorOf["cert"] = BadCert
            /\ ErrorOf["plaintext"] = Downgrade /\ ErrorOf["large"] = TooLarge
        BY DEF ErrorOf
      <4>2. \A e \in {Unreachable, Deadline, ServerError, Throttled} :
              "nil" \notin e /\ LoginRetryable(e)
        BY DEF Unreachable, Deadline, ServerError, Throttled, LoginRetryable,
               Retryable
      <4>3. \A e \in {Forbidden, BadCert, Downgrade, TooLarge} :
              "nil" \notin e /\ ~LoginRetryable(e)
        BY DEF Forbidden, BadCert, Downgrade, TooLarge, LoginRetryable,
               Retryable
      <4> QED  BY <4>1, <4>2, <4>3 DEF Nil
    <3> QED  BY <2>1, <3>1 DEF Answer, Decided
  <2>2. CASE Serve \/ Rotate \/ Write \/ Turn
    BY <2>2 DEF Serve, Rotate, Write, Turn, Change, Decided
  <2>3. CASE Load \/ Connect \/ Attempt \/ BackoffEnds \/ Restart \/ Stop
    BY <2>3 DEF Load, Connect, Attempt, BackoffEnds, Restart, Stop, Decided
  <2> QED  BY <1>1, <2>1, <2>2, <2>3 DEF Next, Daemon
<1>2. StartInv /\ [Next]_vars => [Decided]_vars
  BY <1>1
<1> QED  BY StartInit, StartStep, <1>2, PTL DEF Spec, StartIsDecided
=============================================================================
