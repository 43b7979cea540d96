-------------------------------- MODULE Setup ---------------------------------
(***************************************************************************)
(* The identity, the trust anchors and the privacy salts of one node:      *)
(* `dacar init`, `identity new`, `salt new`, `salt set`, `anchor add`, and  *)
(* what they do to the decisions the node has issued with `grant` and      *)
(* `revoke`.  A command that changes several records can be killed between *)
(* two of them.  One of these commands runs at a time, so loading and      *)
(* saving the configuration is one step; an issuing command may run beside *)
(* it, with the identity and the configuration it loaded before.           *)
(*                                                                         *)
(* Keys and salts are numbered in the order they were made; all decisions  *)
(* are about one grantee, relation and object.                             *)
(***************************************************************************)
EXTENDS Naturals, Sequences, FiniteSets

CONSTANTS MaxKeys,      \* bound: identities generated or adopted
          MaxSalts,     \* bound: salts generated or received
          MaxIssued,    \* bound: decisions issued
          MaxSets,      \* bound: times the primary salt is set
          MaxKills,     \* bound: commands killed half-way
          Other         \* identities of other nodes

ASSUME SetupAssumption ==
    /\ MaxKeys \in Nat /\ MaxSalts \in Nat /\ MaxIssued \in Nat
    /\ MaxSets \in Nat /\ MaxKills \in Nat
    /\ Other \cap Nat = {}

VARIABLES key,          \* identity.key, 0 when there is none
          self,         \* the alias `self`, 0 when there is none
          salts,        \* config: the primary salt, then the legacy ones
          anchors,      \* config: the Root Trust Anchors
          state,        \* the active tuples this node has issued
          step,         \* what the command that changes the setup does next
          old,          \* the identity that command replaces
          draft,        \* what an issuing command is about to store
          keys,         \* how many identities there have been
          made,         \* how many salts there have been
          issued,       \* history: how many decisions were issued
          rotations,    \* history: how often the primary salt was rotated
          sets,         \* history: how often `salt set` replaced it
          cut,          \* history: no setup command was completed since a kill
          stray,        \* history: own identities a kill left among the anchors
          added,        \* history: anchors added by hand
          kills         \* history: how many commands were killed

config  == <<salts, anchors>>
history == <<rotations, sets, cut, stray, added, kills>>
issuing == <<state, draft, issued>>
vars == <<key, self, config, step, old, keys, made, issuing, history>>

MaxLegacy == 2
Key  == 0 .. MaxKeys
Salt == 1 .. MaxSalts
Step == {"idle", "initConfig", "initRecords", "initAliases",
         "rotateConfig", "rotateAliases"}

(* A tuple under a salt; nth, at and primary are for the properties: which  *)
(* decision it was, how many rotations its command knew of, and whether it   *)
(* took the primary salt.                                                    *)
Decision == [allow: BOOLEAN, salt: Salt, by: Key, nth: 0 .. MaxIssued,
             at: Nat, primary: BOOLEAN]
NoDraft  == [none |-> TRUE]

TypeOK ==
    /\ key \in Key /\ self \in Key /\ old \in Key
    /\ salts \in Seq(Salt) /\ Len(salts) <= 1 + MaxLegacy
    /\ anchors \subseteq Key \cup Other
    /\ state \subseteq Decision /\ draft \in Decision \cup {NoDraft}
    /\ step \in Step
    /\ keys \in Key /\ made \in 0 .. MaxSalts /\ issued \in 0 .. MaxIssued
    /\ rotations \in Nat /\ sets \in 0 .. MaxSets /\ cut \in BOOLEAN
    /\ stray \subseteq Key /\ added \subseteq Key \cup Other
    /\ kills \in 0 .. MaxKills

Exists == salts # <<>>          \* DacarStore.exists: there is a configuration

Init ==
    /\ key = 0 /\ self = 0 /\ old = 0 /\ keys = 0
    /\ salts = <<>> /\ made = 0 /\ anchors = {}
    /\ state = {} /\ draft = NoDraft /\ issued = 0
    /\ step = "idle"
    /\ rotations = 0 /\ sets = 0 /\ cut = FALSE
    /\ stray = {} /\ added = {} /\ kills = 0

(* An identity is generated, or one made elsewhere is adopted. *)
NewKey == /\ keys < MaxKeys
          /\ keys' = keys + 1
          /\ key' = keys + 1

------------------------------------------------------------------------------
(* `dacar init`: an existing store is refused.  A key a killed init left is  *)
(* used again, unless --identity brings another.                             *)
InitKey ==
    /\ step = "idle" /\ ~ Exists
    /\ NewKey \/ (key # 0 /\ UNCHANGED <<key, keys>>)
    /\ step' = "initConfig"
    /\ UNCHANGED <<self, config, old, made, issuing, history>>

InitConfig ==
    /\ step = "initConfig"
    /\ made < MaxSalts
    /\ made' = made + 1
    /\ salts' = <<made + 1>>
    /\ anchors' = {key}
    /\ step' = "initRecords"
    /\ UNCHANGED <<key, self, old, keys, issuing, history>>

(* The state, the clock and the ledger start empty. *)
InitRecords ==
    /\ step = "initRecords"
    /\ state' = {}
    /\ step' = "initAliases"
    /\ UNCHANGED <<key, self, config, old, keys, made, draft, issued, history>>

InitAliases ==
    /\ step = "initAliases"
    /\ self' = key
    /\ step' = "idle"
    /\ cut' = FALSE
    /\ UNCHANGED <<key, config, old, keys, made, issuing,
                   rotations, sets, stray, added, kills>>

(* `dacar identity new`: rotateIdentity saves the key, then the anchors,    *)
(* then the alias.                                                          *)
RotateKey ==
    /\ step = "idle" /\ Exists
    /\ NewKey
    /\ old' = key
    /\ step' = "rotateConfig"
    /\ UNCHANGED <<self, config, made, issuing, history>>

(* Wrong: the new identity is added, the old one stays. *)
RotatedKeepingOld == anchors \cup {key}

(* Wrong: the old identity is taken out, the new one is not put in. *)
RotatedDropping == anchors \ {old}

Rotated == (anchors \ {old}) \cup {key}

RotateConfig ==
    /\ step = "rotateConfig"
    /\ anchors' = Rotated
    /\ step' = "rotateAliases"
    /\ UNCHANGED <<key, self, salts, old, keys, made, issuing, history>>

RotateAliases ==
    /\ step = "rotateAliases"
    /\ self' = key
    /\ step' = "idle"
    /\ cut' = FALSE
    /\ old' = 0
    /\ UNCHANGED <<key, config, keys, made, issuing,
                   rotations, sets, stray, added, kills>>

(* The command is killed before its next record. *)
Kill ==
    /\ step # "idle"
    /\ kills < MaxKills
    /\ kills' = kills + 1
    /\ step' = "idle"
    /\ cut' = TRUE
    /\ stray' = IF step = "rotateConfig" THEN stray \cup {old} ELSE stray
    /\ old' = 0
    /\ UNCHANGED <<key, self, config, keys, made, issuing,
                   rotations, sets, added>>

------------------------------------------------------------------------------
SmallerOf(m, n) == IF m < n THEN m ELSE n

(* Wrong: no salt is dropped. *)
PushedAll(s) == <<s>> \o salts

(* Wrong: the legacy salts stay as they are when there are two already. *)
PushedBack(s) == <<s>> \o IF Len(salts) > MaxLegacy THEN Tail(salts)
                                                   ELSE salts

(* The old primary salt becomes the first legacy salt, the first the second, *)
(* and what was the second is dropped.                                       *)
Pushed(s) == <<s>> \o SubSeq(salts, 1, SmallerOf(MaxLegacy, Len(salts)))

(* `dacar salt new` *)
SaltNew ==
    /\ step = "idle" /\ Exists
    /\ made < MaxSalts
    /\ made' = made + 1
    /\ salts' = Pushed(made + 1)
    /\ rotations' = rotations + 1
    /\ UNCHANGED <<key, self, anchors, step, old, keys, issuing,
                   sets, cut, stray, added, kills>>

(* `dacar salt set`: a salt received from another node, or used before,     *)
(* replaces the primary; the legacy salts stay.                             *)
SaltSet(s) ==
    /\ step = "idle" /\ Exists
    /\ s <= made + 1 /\ sets < MaxSets
    /\ made' = IF s = made + 1 THEN s ELSE made
    /\ salts' = [salts EXCEPT ![1] = s]
    /\ sets' = sets + 1
    /\ UNCHANGED <<key, self, anchors, step, old, keys, issuing,
                   rotations, cut, stray, added, kills>>

(* `dacar anchor add` *)
AnchorAdd(a) ==
    /\ step = "idle" /\ Exists
    /\ a \notin anchors
    /\ anchors' = anchors \cup {a}
    /\ added' = added \cup {a}
    /\ UNCHANGED <<key, self, salts, step, old, keys, made, issuing,
                   rotations, sets, cut, stray, kills>>

------------------------------------------------------------------------------
(* `grant` and `revoke` load the identity and the configuration; the tuple   *)
(* is hashed with the primary salt, or with the legacy salt --legacy names.  *)
IssueStart(i, allow) ==
    /\ Exists
    /\ draft = NoDraft
    /\ i \in DOMAIN salts
    /\ issued < MaxIssued
    /\ draft' = [allow |-> allow, salt |-> salts[i], by |-> key, nth |-> issued,
                 at |-> rotations, primary |-> i = 1]
    /\ UNCHANGED <<key, self, config, step, old, keys, made, state, issued, history>>

(* The state is loaded, the operation applied, the state saved. *)
IssueStore ==
    /\ draft # NoDraft
    /\ state' = state \cup {draft}
    /\ draft' = NoDraft
    /\ issued' = issued + 1
    /\ UNCHANGED <<key, self, config, step, old, keys, made, history>>

(* `revoke` of a tuple this identity issued: under --legacy or, whatever its *)
(* salt, with --copy-hashes.                                                 *)
Revoke(t) ==
    /\ Exists
    /\ t.by = key
    /\ state' = state \ {t}
    /\ UNCHANGED <<key, self, config, step, old, keys, made, draft, issued, history>>

Next ==
    \/ InitKey \/ InitConfig \/ InitRecords \/ InitAliases
    \/ RotateKey \/ RotateConfig \/ RotateAliases \/ Kill
    \/ SaltNew
    \/ \E s \in Salt : SaltSet(s)
    \/ \E a \in (1 .. keys) \cup Other : AnchorAdd(a)
    \/ \E i \in 1 .. 1 + MaxLegacy, allow \in BOOLEAN : IssueStart(i, allow)
    \/ IssueStore
    \/ \E t \in state : Revoke(t)

Spec == Init /\ [][Next]_vars

------------------------------------------------------------------------------
(* The engine's hypotheses use the configured salts, and an issuer counts   *)
(* when it is an anchor.                                                    *)
Visible(t) == \E i \in DOMAIN salts : salts[i] = t.salt
Counts(t)  == Visible(t) /\ t.by \in anchors
Allowed    == /\ \E t \in state : t.allow /\ Counts(t)
              /\ \A t \in state : Counts(t) => t.allow

(* store.js init, rotateIdentity: unless the last of them was killed, the    *)
(* node's own identity is a trust anchor and the one `self` names: a kill    *)
(* between any two of their writes is repaired by completing another.        *)
SelfAnchored ==
    step = "idle" /\ Exists /\ ~ cut => key \in anchors /\ self = key

(* store.js rotateIdentity: an identity the node gave up is no anchor any    *)
(* more, unless it was added by hand or the command was killed between the   *)
(* key and the anchors; completing another rotation does not remove it then. *)
RetiredIsNoAnchor ==
    step \in {"idle", "rotateAliases"} => anchors \subseteq {key} \cup added \cup stray

(* dacar.js cmdSaltNew: a decision under the primary salt still counts after *)
(* two rotations, one whose command had loaded its salt before included.     *)
TwoRotationsOfGrace ==
    sets = 0 => \A t \in state :
       t.primary /\ rotations <= t.at + MaxLegacy => Visible(t)

(* dacar.js cmdSaltNew, engine.js evaluate: a denial under the primary salt, *)
(* by an identity that is still an anchor, decides as long as every          *)
(* allowance that counts is older: no rotation of the salts, or of the       *)
(* identity, brings back an allowance and leaves out its denial.             *)
LaterDenialCounts ==
    sets = 0 => \A d \in state :
       (/\ ~ d.allow /\ d.primary /\ d.by \in anchors
        /\ \A a \in state : a.allow /\ Counts(a) => a.nth < d.nth)
          => ~ Allowed
==============================================================================
