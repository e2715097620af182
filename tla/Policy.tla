------------------------------- MODULE Policy -------------------------------
(***************************************************************************)
(* The rules of a configuration, the OpenBao policy generated from them,   *)
(* and what a request reads, from the peer address it comes from on.       *)
(* Addresses, unit names, credential IDs, globs and path segments are      *)
(* sequences of tokens: ".", "@", "+" and "/" are the characters the code  *)
(* looks for, a placeholder is one token, any other token is some ordinary *)
(* text, and "*" is every glob metacharacter.  A path is a sequence of     *)
(* segments, so the slashes between them are no tokens.  Left out: "?" and *)
(* [...], backslashes, control characters, braces outside a placeholder,   *)
(* and the fields of a rule that do not decide what is read.               *)
(***************************************************************************)
EXTENDS Naturals, SequencesExt

CONSTANTS
  Tokens,         \* what text is made of
  Units,          \* the unit names that are asked with
  CredentialIDs,  \* the credentials they ask for
  Addresses,      \* the peer addresses of connections
  Files           \* the lists of rules an operator writes

VARIABLES
  rules,   \* the rules in effect
  policy,  \* the grants -print-policy gives for them
  plan     \* what the request of this behavior reads, <<>> if refused

vars == <<rules, policy, plan>>

-----------------------------------------------------------------------------
(* Text, globs and placeholders *)

Placeholders == {"{unit}", "{unit_name}", "{prefix}", "{instance}", "{credential}"}

ASSUME TokensAreEnough ==
  Placeholders \cup {".", "@", "+", "/", "*", "unit", "data"} \subseteq Tokens

Text == Seq(Tokens)

\* A path is cut at its slashes: it has a segment, and no segment has a slash.
Segment == {s \in Text : "/" \notin ToSet(s)}
Path == Seq(Segment) \ {<<>>}

\* A rule's globs, and where it reads from; only KV has a mount.  A credential
\* glob with a slash, which no request matches, is left out.
Rule == {r \in [unit : Text, credential : Segment, backend : {"raw", "kv"},
                mount : Path \cup {<<>>}, path : Path] :
           r.backend = "kv" => r.mount # <<>>}

ASSUME FilesAreRules == Files \subseteq Seq(Rule)
ASSUME NamesAreText == Units \cup CredentialIDs \cup Addresses \subseteq Text

Literal(glob) == "*" \notin ToSet(glob)

\* ends[i] is where in a name the glob's first i tokens can end.
MatchGlob(glob, name) ==
  LET ends[i \in 0..Len(glob)] ==
        IF i = 0 THEN {0}
        ELSE UNION {{j \in k..Len(name) : glob[i] = "*" \/ (j = k + 1 /\ glob[i] = name[j])} :
                      k \in ends[i - 1]}
  IN  Len(name) \in ends[Len(glob)]

At(name)      == SelectInSeq(name, LAMBDA t : t = "@")
LastDot(name) == SelectLastInSeq(name, LAMBDA t : t = ".")

\* A name's last dot starts its suffix, unless it is the first character.
WithoutSuffix(name) ==
  IF LastDot(name) > 1 THEN SubSeq(name, 1, LastDot(name) - 1) ELSE name

PlaceholderValues(unit, credential) ==
  LET name == WithoutSuffix(unit)
      at   == IF At(name) = 0 THEN Len(name) + 1 ELSE At(name)
  IN  [p \in Placeholders |->
         CASE p = "{unit}"       -> unit
           [] p = "{unit_name}"  -> name
           [] p = "{prefix}"     -> SubSeq(name, 1, at - 1)
           [] p = "{instance}"   -> SubSeq(name, at + 1, Len(name))
           [] p = "{credential}" -> credential]

\* Mutant: any text before the "@" pins the prefix.
PinnedByAnyHead(unitGlob, credentialGlob) ==
  Restrict(PlaceholderValues(unitGlob, credentialGlob),
           {p \in Placeholders :
              \/ p = "{credential}" /\ Literal(credentialGlob)
              \/ p # "{credential}" /\ Literal(unitGlob)
              \/ p = "{prefix}" /\ At(unitGlob) # 0})

\* The values are those of the globs themselves, read as names.
PinnedValues(unitGlob, credentialGlob) ==
  Restrict(PlaceholderValues(unitGlob, credentialGlob),
           {p \in Placeholders :
              \/ p = "{credential}" /\ Literal(credentialGlob)
              \/ p # "{credential}" /\ Literal(unitGlob)
              \/ /\ p = "{prefix}" /\ At(unitGlob) # 0
                 /\ Literal(SubSeq(unitGlob, 1, At(unitGlob) - 1))})

\* Placeholders without a value stay.
ExpandSegment(values, segment) ==
  FlattenSeq([j \in DOMAIN segment |->
    IF segment[j] \in DOMAIN values THEN values[segment[j]] ELSE <<segment[j]>>])

Expand(values, path) == [i \in DOMAIN path |-> ExpandSegment(values, path[i])]

-----------------------------------------------------------------------------
(* What loads *)

CheckSegments(path) == ToSet(path) \cap {<<>>, <<".">>, <<".", ".">>} = {}

CheckPolicyWildcards(path) == <<"+">> \notin ToSet(path) /\ Last(Last(path)) # "*"

CheckLiteral(path) == CheckSegments(path) /\ CheckPolicyWildcards(path)

Texts(r) == IF r.backend = "kv" THEN {r.mount, r.path} ELSE {r.path}

\* The checks of a rule's text as it is written.
ValidAsWritten(r) ==
  /\ r.unit # <<>>
  /\ (ToSet(r.unit) \cup ToSet(r.credential)) \cap Placeholders = {}
  /\ ToSet(r.unit) \cap {"+", "/"} = {}
  /\ r.backend = "raw" => r.mount = <<>>
  /\ \A p \in Texts(r) : CheckLiteral(p)

\* What the globs pin is checked like what is written.
Valid(r) ==
  /\ ValidAsWritten(r)
  /\ \A p \in Texts(r) : CheckLiteral(Expand(PinnedValues(r.unit, r.credential), p))

-----------------------------------------------------------------------------
(* The policy *)

\* The path of OpenBao's API behind a mount and a path.
Location(r) == IF r.backend = "kv" THEN r.mount \o <<<<"data">>>> \o r.path ELSE r.path

Free(segment) == ToSet(segment) \cap Placeholders # {}

PolicyPath(r) ==
  LET pinned == Expand(PinnedValues(r.unit, r.credential), Location(r))
  IN  [path |-> [i \in DOMAIN pinned |-> IF Free(pinned[i]) THEN <<"+">> ELSE pinned[i]],
       widened |-> \E s \in ToSet(pinned) : Free(s) /\ Len(s) > 1]

\* Mutant: a duplicate is dropped with its mark.
AddFirst(grants, g) ==
  IF \E h \in ToSet(grants) : h.path = g.path THEN grants ELSE Append(grants, g)

Add(grants, g) ==
  LET same == SelectInSeq(grants, LAMBDA h : h.path = g.path)
  IN  IF same = 0 THEN Append(grants, g)
      ELSE [grants EXCEPT ![same].widened = @ \/ g.widened]

Grants(file) ==
  LET grants[i \in 0..Len(file)] ==
        IF i = 0 THEN <<>> ELSE Add(grants[i - 1], PolicyPath(file[i]))
  IN  grants[Len(file)]

\* OpenBao: a "+" in a policy's path is any one segment.
Covers(granted, read) ==
  /\ Len(granted) = Len(read)
  /\ \A i \in DOMAIN read : granted[i] \in {<<"+">>, read[i]}

-----------------------------------------------------------------------------
(* A request *)

NoRequest == [unit |-> <<>>, credential |-> <<>>]

\* Mutant: only empty parts are refused.
NewRequestSplit(unit, credential) ==
  IF unit = <<>> \/ credential = <<>> THEN NoRequest
  ELSE [unit |-> unit, credential |-> credential]

\* A request names one unit and one credential, neither with a slash.
NewRequest(unit, credential) ==
  IF unit = <<>> \/ credential = <<>> \/ "/" \in ToSet(unit \o credential)
  THEN NoRequest
  ELSE [unit |-> unit, credential |-> credential]

\* Where sep is in s.
Occurs(s, sep) ==
  {i \in 1..(Len(s) - Len(sep) + 1) : SubSeq(s, i, i + Len(sep) - 1) = sep}

\* Mutant: the address is cut at its last "/unit/".
CutAtLast(s, sep) ==
  LET i == Max(Occurs(s, sep))
  IN  <<SubSeq(s, 1, i - 1), SubSeq(s, i + Len(sep), Len(s))>>

\* strings.Cut.
Cut(s, sep) ==
  LET i == Min(Occurs(s, sep))
  IN  <<SubSeq(s, 1, i - 1), SubSeq(s, i + Len(sep), Len(s))>>

\* The peer address of the service manager is "@RANDOM/unit/UNIT/ID".
Marker == <<"/", "unit", "/">>

ParsePeer(address) ==
  IF ~IsPrefix(<<"@">>, address) \/ Occurs(Tail(address), Marker) = {}
  THEN NoRequest
  ELSE LET rest == Cut(Tail(address), Marker)[2]
       IN  IF Occurs(rest, <<"/">>) = {} THEN NoRequest
           ELSE NewRequest(Cut(rest, <<"/">>)[1], Cut(rest, <<"/">>)[2])

NoPlan == [from |-> <<>>, unit |-> <<>>, credential |-> <<>>, rule |-> 0,
           read |-> <<>>]

\* The first rule whose globs match, 0 if none does.
Match(unit, credential) ==
  SelectInSeq(rules, LAMBDA r : /\ MatchGlob(r.unit, unit)
                                /\ MatchGlob(r.credential, credential))

Init ==
  /\ rules \in Files
  /\ \A r \in ToSet(rules) : Valid(r)
  /\ policy = Grants(rules)
  /\ plan = NoPlan

\* Mutant: the expanded mount is not checked.
RefusedByPath(i, values) == i = 0 \/ ~CheckSegments(Expand(values, rules[i].path))

Refused(i, values) ==
  \/ i = 0
  \/ ~CheckSegments(Expand(values, rules[i].path))
  \/ rules[i].backend = "kv" /\ ~CheckSegments(Expand(values, rules[i].mount))

\* Resolver.Plan.
Resolved(from, request) ==
  LET i == Match(request.unit, request.credential)
      values == PlaceholderValues(request.unit, request.credential)
  IN  [from |-> from, unit |-> request.unit, credential |-> request.credential,
       rule |-> i,
       read |-> IF Refused(i, values) THEN <<>> ELSE Expand(values, Location(rules[i]))]

\* Requests are independent: one is enough for a behavior.
Plan(from, request) ==
  /\ plan = NoPlan /\ request # NoRequest
  /\ plan' = Resolved(from, request)
  /\ UNCHANGED <<rules, policy>>

\* A connection to the socket, and -resolve UNIT CREDENTIAL.
Serve(address) == Plan(address, ParsePeer(address))
Resolve(unit, credential) == Plan(<<>>, NewRequest(unit, credential))

Next ==
  \/ \E address \in Addresses : Serve(address)
  \/ \E unit \in Units, credential \in CredentialIDs : Resolve(unit, credential)

Spec == Init /\ [][Next]_vars

-----------------------------------------------------------------------------
(* Properties *)

\* Paths are clean: neither a grant nor a read has a segment that is empty or
\* that a server would resolve to another path (FuzzResolve's cleanSegments).
TypeOK ==
  /\ rules \in Files
  /\ \A g \in ToSet(policy) : CheckSegments(g.path) /\ g.widened \in BOOLEAN
  /\ plan.from \in Addresses \cup {<<>>}
  /\ plan = NoPlan \/ NewRequest(plan.unit, plan.credential) # NoRequest
  /\ plan.rule \in 0..Len(rules)
  /\ CheckSegments(plan.read)

\* A request is only ever planned for the unit and the credential its address
\* names: behind the first marker, and with nothing behind them, whichever
\* parts of the address look like the marker or are empty (ParsePeer).
RequestIsTheAddress ==
  plan.from # <<>> =>
    \E n \in 0..Len(plan.from) :
      LET random == SubSeq(plan.from, 2, n)
      IN  /\ Occurs(random \o Marker, Marker) = {Len(random) + 1}
          /\ plan.from = <<"@">> \o random \o Marker \o plan.unit \o <<"/">>
                         \o plan.credential

\* What a placeholder stands for is never more than a part of one segment: a
\* request, from the socket or from -resolve, cannot add segments to a rule's
\* path and so reach a secret below it (NewRequest).
ReadKeepsItsSegments == \A segment \in ToSet(plan.read) : "/" \notin ToSet(segment)

Granting(read) == {g \in ToSet(policy) : Covers(g.path, read)}

\* What docs/cli.md:27 promises and FuzzResolve asserts: the generated policy
\* grants every read a request can lead to.
EveryReadIsGranted == plan.read # <<>> => Granting(plan.read) # {}

\* Read as a name, the glob loses text in front of its "@" to the suffix.
CutsItsPrefix(glob) == 1 < LastDot(glob) /\ LastDot(glob) < At(glob)

\* The same for the rules whose unit glob keeps its dots behind the "@": what
\* PinnedValues writes into the policy is what PlaceholderValues gives every
\* request the globs match.
PinnedValuesAreReal ==
  plan.read # <<>> /\ ~CutsItsPrefix(rules[plan.rule].unit) => Granting(plan.read) # {}

\* A rule that names one unit and one credential is granted exactly the path
\* it reads, and that path is no wildcard, although the values its globs pin
\* come after the checks of its text (Credential.validate, policyPath).
NamedReadIsGrantedExactly ==
  plan.read # <<>> /\ Literal(rules[plan.rule].unit) /\ Literal(rules[plan.rule].credential)
    => /\ \E g \in ToSet(policy) : g.path = plan.read
       /\ CheckPolicyWildcards(plan.read)

\* A segment of a read that is not one value of the request (it is literal text,
\* or a placeholder shares it) is granted by its own text or by a grant that is
\* marked as widened, whichever rule that grant was first made for (Grants).
WideningIsMarked ==
  LET values == PlaceholderValues(plan.unit, plan.credential)
  IN  plan.read # <<>> /\ ~CutsItsPrefix(rules[plan.rule].unit) =>
        \A i \in DOMAIN plan.read :
          \/ plan.read[i] \in Range(values)
          \/ \E g \in Granting(plan.read) : g.path[i] # <<"+">> \/ g.widened
=============================================================================
