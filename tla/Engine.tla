-------------------------------- MODULE Engine --------------------------------
(***************************************************************************)
(* The evaluation of one request against the active tuples.  A tuple that  *)
(* does not cover the requested object under any configured salt cannot    *)
(* matter, and the object stays the same through the whole recursion, so   *)
(* only the covering tuples are kept, each as who granted which relation   *)
(* to whom.  The recursion of the code (_resolve and authority call each   *)
(* other) is the stack of its pending calls to _resolve.                   *)
(***************************************************************************)
EXTENDS Integers, Sequences, FiniteSets

CONSTANTS Identity,
          Root,         \* the Root Trust Anchors
          Permission,   \* the tuples that can be granted
          MaxActive,    \* bound: tuples active at once
          MaxDepth,     \* delegation hops in a path
          MaxVisited    \* calls to _resolve in a request

Relation == {"read", "-read", "admin", "-admin"}
Denial(relation) == IF relation = "admin" THEN "-admin" ELSE "-read"

Tuple == [relation: Relation, grantee: Identity, issuer: Identity]

ASSUME EngineAssumption ==
    /\ Root \subseteq Identity
    /\ Permission \subseteq Tuple
    /\ MaxActive \in Nat /\ MaxDepth \in Nat
    /\ MaxVisited \in Nat \ {0}

VARIABLES active,       \* the active tuples, in the order of the state's map
          stack,        \* the pending calls to _resolve, the request first
          counter,      \* how many calls there have been
          memo,         \* the identities whose authority was confirmed
          request,      \* the request under evaluation, or answered last
          verdict

vars == <<active, stack, counter, memo, request, verdict>>

Request == [grantee: Identity, relation: {"read", "admin"}]
Verdict == {"none", "pending", "allow", "deny"}

(* A call to _resolve: what it looks for, the candidate it is at, and what   *)
(* it has found.                                                             *)
Frame == [who: Identity, relation: {"read", "admin"}, next: Nat \ {0},
          deny: BOOLEAN, allow: BOOLEAN]

Call(who, relation) ==
    [who |-> who, relation |-> relation, next |-> 1, deny |-> FALSE, allow |-> FALSE]

TypeOK ==
    /\ active \in Seq(Permission)
    /\ stack \in Seq(Frame)
    /\ counter \in Nat
    /\ memo \subseteq Identity
    /\ request \in Request
    /\ verdict \in Verdict

Init ==
    /\ active = <<>> /\ stack = <<>> /\ counter = 0 /\ memo = {}
    /\ request \in Request
    /\ verdict = "none"

Active == {active[k] : k \in 1 .. Len(active)}

------------------------------------------------------------------------------
(* Between two evaluations the state changes: a tuple becomes active, or    *)
(* ceases to be.                                                            *)
Activate(t) ==
    /\ stack = <<>> /\ t \notin Active /\ Len(active) < MaxActive
    /\ active' = Append(active, t)
    /\ verdict' = "none"
    /\ UNCHANGED <<stack, counter, memo, request>>

Deactivate(k) ==
    /\ stack = <<>>
    /\ active' = [i \in 1 .. Len(active) - 1 |->
                    active[IF i < k THEN i ELSE i + 1]]
    /\ verdict' = "none"
    /\ UNCHANGED <<stack, counter, memo, request>>

Ask(grantee, relation) ==
    /\ stack = <<>>
    /\ request' = [grantee |-> grantee, relation |-> relation]
    /\ stack' = <<Call(grantee, relation)>>
    /\ counter' = 1
    /\ verdict' = "pending"
    /\ UNCHANGED <<active, memo>>

Last == Len(stack)
Top  == stack[Last]
Candidate == active[Top.next]
Depth   == Last - 1
Visited == {stack[k].who : k \in 2 .. Last}

Matches(frame, t) ==
    /\ t.grantee = frame.who
    /\ t.relation \in {frame.relation, Denial(frame.relation)}

(* Wrong: the last denial looked at decides, not any. *)
DecidedLast(frame, t, valid) ==
    [frame EXCEPT !.next  = @ + 1,
                  !.deny  = valid /\ t.relation = Denial(frame.relation),
                  !.allow = @ \/ (valid /\ t.relation = frame.relation)]

(* The frame after the authority of its candidate's issuer was decided. *)
Decided(frame, t, valid) ==
    [frame EXCEPT !.next  = @ + 1,
                  !.deny  = @ \/ (valid /\ t.relation = Denial(frame.relation)),
                  !.allow = @ \/ (valid /\ t.relation = frame.relation)]

Looking == stack # <<>> /\ Top.next <= Len(active)

Skip ==
    /\ Looking /\ ~ Matches(Top, Candidate)
    /\ stack' = [stack EXCEPT ![Last].next = @ + 1]
    /\ UNCHANGED <<active, counter, memo, request, verdict>>

Examine(valid) ==
    /\ stack' = [stack EXCEPT ![Last] = Decided(@, Candidate, valid)]
    /\ UNCHANGED <<active, memo, request, verdict>>

Known   == Candidate.issuer \in Root \cup memo
Refused == ~ Known /\ (Depth >= MaxDepth \/ Candidate.issuer \in Visited)

(* An anchor, or an issuer confirmed before: it has the authority. *)
Confirm ==
    /\ Looking /\ Matches(Top, Candidate) /\ Known
    /\ Examine(TRUE)
    /\ UNCHANGED counter

(* Wrong: an issuer met again on the path is taken for confirmed. *)
RefuseNot ==
    /\ Looking /\ Matches(Top, Candidate) /\ Refused
    /\ Examine(TRUE)
    /\ UNCHANGED counter

(* Wrong: goes on without moving to the next candidate. *)
RefuseStalls ==
    /\ Looking /\ Matches(Top, Candidate) /\ Refused
    /\ UNCHANGED vars

(* The path is too long, or comes back to an issuer it went through. *)
Refuse ==
    /\ Looking /\ Matches(Top, Candidate) /\ Refused
    /\ Examine(FALSE)
    /\ UNCHANGED counter

(* The request has used up its calls: this one finds nothing. *)
Overrun ==
    /\ Looking /\ Matches(Top, Candidate) /\ ~ Known /\ ~ Refused
    /\ counter >= MaxVisited
    /\ counter' = counter + 1
    /\ Examine(FALSE)

(* Wrong: asks whether the issuer holds the candidate's relation. *)
RecurseSameRelation ==
    /\ Looking /\ Matches(Top, Candidate) /\ ~ Known /\ ~ Refused
    /\ counter < MaxVisited
    /\ counter' = counter + 1
    /\ stack' = Append(stack, Call(Candidate.issuer, Candidate.relation))
    /\ UNCHANGED <<active, memo, request, verdict>>

(* Wrong: a call within a call is not counted. *)
RecurseUncounted ==
    /\ Looking /\ Matches(Top, Candidate) /\ ~ Known /\ ~ Refused
    /\ counter < MaxVisited
    /\ stack' = Append(stack, Call(Candidate.issuer, "admin"))
    /\ UNCHANGED <<active, counter, memo, request, verdict>>

(* Does the issuer hold admin on the object? *)
Recurse ==
    /\ Looking /\ Matches(Top, Candidate) /\ ~ Known /\ ~ Refused
    /\ counter < MaxVisited
    /\ counter' = counter + 1
    /\ stack' = Append(stack, Call(Candidate.issuer, "admin"))
    /\ UNCHANGED <<active, memo, request, verdict>>

Finished == stack # <<>> /\ Top.next > Len(active)
(* Wrong: a grant wins against a denial. *)
AllowsGrantFirst(frame) == frame.allow

Allows(frame) == frame.allow /\ ~ frame.deny

(* The inner call is done: only a positive answer is remembered, for the    *)
(* rest of the request.                                                     *)
Return ==
    /\ Finished /\ Last > 1
    /\ memo' = IF Allows(Top) THEN memo \cup {Top.who} ELSE memo
    /\ LET caller == stack[Last - 1]
       IN  stack' = [SubSeq(stack, 1, Last - 1) EXCEPT ![Last - 1] =
                       Decided(caller, active[caller.next], Allows(Top))]
    /\ UNCHANGED <<active, counter, request, verdict>>

Answer ==
    /\ Finished /\ Last = 1
    /\ verdict' = IF Allows(Top) THEN "allow" ELSE "deny"
    /\ stack' = <<>>
    /\ memo' = {}
    /\ UNCHANGED <<active, counter, request>>

Evaluate == Skip \/ Confirm \/ Refuse \/ Overrun \/ Recurse \/ Return \/ Answer

Next ==
    \/ \E t \in Permission : Activate(t)
    \/ \E k \in 1 .. Len(active) : Deactivate(k)
    \/ \E grantee \in Identity, relation \in {"read", "admin"} : Ask(grantee, relation)
    \/ Evaluate

Spec == Init /\ [][Next]_vars

(* An evaluation runs to its end without yielding. *)
FairSpec == Spec /\ WF_vars(Evaluate)

------------------------------------------------------------------------------
(* What delegation means.  A set of identities is closed when it holds the  *)
(* anchors and whoever one of its members made an admin, unless an anchor   *)
(* denied it that; an identity has authority when every closed set has it.  *)
Holds(who, relation, from) ==
    \E t \in Active : /\ t.grantee = who /\ t.relation = relation
                      /\ t.issuer \in from

Closed(S) ==
    /\ Root \subseteq S
    /\ \A who \in Identity :
          Holds(who, "admin", S) /\ ~ Holds(who, "-admin", Root) => who \in S

Anchored == {who \in Identity :
                \A S \in SUBSET Identity : Closed(S) => who \in S}

(* Nothing is allowed that does not come from an anchor, through admins no  *)
(* anchor has denied: neither the memo, nor a cycle of delegations, nor a   *)
(* request cut short by its bounds ever confers authority (engine.js        *)
(* authority, _resolve).                                                    *)
OnlyAnchored ==
    verdict = "allow" => Holds(request.grantee, request.relation, Anchored)

(* An anchor's denial is final: no order of the tuples and no bound lets a  *)
(* grant win against it (engine.js _resolve).                               *)
AnchorDenialWins ==
    verdict = "allow" =>
       ~ Holds(request.grantee, Denial(request.relation), Root)

(* The bounds do not show: no path of delegations can be longer than the     *)
(* depth allows, and there are calls left.  Nor does the order: only anchors *)
(* deny admin, since whether a denial by an admin counts depends on the path.*)
Unhindered ==
    /\ \A t \in Active : t.relation = "-admin" => t.issuer \in Root
    /\ Cardinality({t.issuer : t \in Active} \ Root) <= MaxDepth
    /\ counter <= MaxVisited

(* Then the verdict is the one of section 7.3 of the specification, whatever *)
(* the order of the tuples, the cycles among them and the memo (engine.js    *)
(* evaluateHashes).                                                          *)
VerdictIsExact ==
    (verdict \in {"allow", "deny"} /\ Unhindered)
    => (verdict = "allow" <=>
           /\ Holds(request.grantee, request.relation, Anchored)
           /\ ~ Holds(request.grantee, Denial(request.relation), Anchored))

(* Every request is answered, although delegations may form cycles          *)
(* (engine.js authority, its depth and cycle checks).                       *)
EveryRequestAnswered == verdict = "pending" ~> verdict \in {"allow", "deny"}

(* What the pending calls have left to do: their candidates and their end.  *)
Pending ==
    UNION {{k} \X (stack[k].next .. Len(active) + 1) : k \in 1 .. Len(stack)}

(* Why it ends, whatever the cycles: a step of an evaluation either makes    *)
(* one of the calls the request may make in all, or leaves less to do        *)
(* (engine.js _resolve, its counter).                                        *)
EvaluationShrinks ==
    [][stack # <<>> =>
          \/ counter < counter' /\ counter' <= MaxVisited
          \/ /\ counter <= counter'
             /\ Pending' \subseteq Pending /\ Pending' # Pending]_vars

(* "If the total shared cap is reached, the request fails" (SPEC.md:130).   *)
(* The code drops what it has no calls left for, denials included, and      *)
(* decides from the rest (engine.js _resolve).                              *)
FailsOverTheCap == counter > MaxVisited => verdict # "allow"

(* The authority of an issuer as the code computes it from nothing: no memo *)
(* and no bound, only the issuers passed on the way.                        *)
HasAuthority[who \in Identity, visited \in SUBSET Identity] ==
    \/ who \in Root
    \/ /\ who \notin visited
       /\ LET Valid(relation) ==
                \E t \in Active :
                   /\ t.grantee = who /\ t.relation = relation
                   /\ HasAuthority[t.issuer, visited \cup {who}]
          IN  Valid("admin") /\ ~ Valid("-admin")

(* "Only positives are cached (path-independent)"                           *)
(* (cpp/src/Dacar/Engine.cpp:92): whoever is in the memo has the authority  *)
(* when it is evaluated from nothing.  A denial of admin that the path cut  *)
(* off as a cycle makes a positive depend on the path.                      *)
MemoIsPathIndependent == \A who \in memo : HasAuthority[who, {}]

------------------------------------------------------------------------------
(* The inductive invariant: the calls on the stack are nested, each at the  *)
(* candidate whose issuer the next one decides, and each has found no more  *)
(* than what is anchored and no less than what the anchors deny.            *)

Nested ==
    \A k \in 1 .. Len(stack) :
       /\ stack[k].next <= Len(active) + 1
       /\ k > 1 =>
             /\ stack[k].relation = "admin"
             /\ stack[k].who \notin Root
             /\ stack[k - 1].next <= Len(active)
             /\ stack[k].who = active[stack[k - 1].next].issuer
             /\ Matches(stack[k - 1], active[stack[k - 1].next])

ForRequest ==
    /\ stack # <<>> => /\ stack[1].who = request.grantee
                       /\ stack[1].relation = request.relation
    /\ stack = <<>> => memo = {}
    /\ stack # <<>> => verdict = "pending"

FoundIsAnchored ==
    \A k \in 1 .. Len(stack) :
       stack[k].allow => Holds(stack[k].who, stack[k].relation, Anchored)

DenialsFound ==
    \A k \in 1 .. Len(stack) : \A i \in 1 .. Len(active) :
       (/\ i < stack[k].next
        /\ active[i].grantee = stack[k].who
        /\ active[i].relation = Denial(stack[k].relation)
        /\ active[i].issuer \in Root)
       => stack[k].deny

MemoAnchored == memo \subseteq Anchored

EngineInv ==
    /\ TypeOK
    /\ Nested
    /\ ForRequest
    /\ FoundIsAnchored
    /\ DenialsFound
    /\ MemoAnchored
    /\ OnlyAnchored
    /\ AnchorDenialWins

------------------------------------------------------------------------------
(* What makes the verdict exact.  A call looks only for authority that does  *)
(* not come through the issuers on its own path; those have their own call.  *)

Path(k) == {stack[j].who : j \in 2 .. k}

(* Closed, but for the identities on a path: they may be left out.           *)
ClosedOff(S, path) ==
    /\ Root \subseteq S
    /\ \A who \in Identity \ path :
          Holds(who, "admin", S) /\ ~ Holds(who, "-admin", Root) => who \in S

(* Who has authority that comes through none of the path.                    *)
AnchoredOff(path) ==
    {who \in Identity : \A S \in SUBSET Identity : ClosedOff(S, path) => who \in S}

PathIsSimple == \A k \in 2 .. Len(stack) : stack[k].who \notin Path(k - 1)

DenialsAreAnchored ==
    \A k \in 1 .. Len(stack) :
       stack[k].deny => Holds(stack[k].who, Denial(stack[k].relation), Anchored)

(* What a call has passed over it has noted, if it has authority off the     *)
(* path of the call.                                                         *)
NothingMissed ==
    Unhindered =>
       \A k \in 1 .. Len(stack) : \A i \in 1 .. Len(active) :
          (/\ i < stack[k].next
           /\ active[i].grantee = stack[k].who
           /\ active[i].issuer \in AnchoredOff(Path(k)))
          => /\ active[i].relation = stack[k].relation => stack[k].allow
             /\ active[i].relation = Denial(stack[k].relation) => stack[k].deny

ExactInv ==
    /\ PathIsSimple
    /\ DenialsAreAnchored
    /\ NothingMissed
    /\ VerdictIsExact
==============================================================================
