---------------------------- MODULE TowerProofs -----------------------------
(***************************************************************************)
(* Proofs of Tower's four invariants for every size of the tower, every    *)
(* lockout function that does not decrease, and every number of blocks,    *)
(* waiting votes and crashes.                                              *)
(*                                                                         *)
(* The argument orders the states of a tower.  One follows another: the    *)
(* root descends, the tower reaches as far, and each vote is still there,  *)
(* is below the root, or has expired under the votes after it.  Recording  *)
(* a vote and restoring a saved tower both give a tower that follows.      *)
(***************************************************************************)
EXTENDS Tower, TLAPS

(* The blocks are a tree that grows from slot 0, and each block's chain is *)
(* the path that leads to it.                                              *)
Tree(B) ==
    /\ DOMAIN B \subseteq Slots
    /\ 0 \in DOMAIN B
    /\ \A b \in DOMAIN B :
          /\ B[b].chain \subseteq DOMAIN B
          /\ b \in B[b].chain /\ 0 \in B[b].chain
          /\ \A x \in B[b].chain :
                x <= b /\ B[x].chain = {y \in B[b].chain : y <= x}

(* The votes of a tower are distinct slots of one chain, none of them at   *)
(* or below its root on the root's chain, with confirmations that decrease *)
(* and each locked in when the next one was made.                          *)
Distinct(votes) == \A v, w \in votes : v.slot = w.slot => v = w

Small(votes) ==
    /\ votes \subseteq Votes /\ IsFiniteSet(votes)
    /\ Cardinality(votes) <= MaxLockoutHistory
    /\ Distinct(votes)

Stack(B, T) ==
    /\ Small(T.votes)
    /\ T.root \in DOMAIN B
    /\ \A v \in T.votes : v.slot \in DOMAIN B /\ v.slot \notin B[T.root].chain
    /\ \A v, w \in T.votes : v.slot <= w.slot => v.slot \in B[w.slot].chain
    /\ \A v, w \in T.votes : v.slot < w.slot =>
          /\ v.conf > w.conf
          /\ \/ \E x \in T.votes : v.slot < x.slot /\ x.slot < w.slot
             \/ IsLockedOutAtSlot(v, w.slot)

(* A vote state that can be pushed: its root is below its votes.  A tower  *)
(* that was restored on another fork may not be one until the next vote.   *)
Votable(B, T) ==
    /\ Stack(B, T)
    /\ T.votes # {}
    /\ \A v \in T.votes : T.root < v.slot /\ T.root \in B[v.slot].chain

(* How far a tower has got: its last vote, or its root if it has no votes. *)
Reaches(T, n) ==
    IF T.votes = {} THEN n <= T.root ELSE \E v \in T.votes : n <= v.slot

(* What a tower T owes to a vote v of an earlier one: it still has the     *)
(* vote, or its root descends from it, or all that T voted for since came  *)
(* after v expired.                                                        *)
Upheld(B, v, T) ==
    \/ \E w \in T.votes : w.slot = v.slot
    \/ v.slot \in B[T.root].chain
    \/ /\ Reaches(T, v.slot + Lockout[v.conf] + 1)
       /\ \A w \in T.votes : w.slot > v.slot => w.slot > v.slot + Lockout[v.conf]

(* T2 is a later state of a tower whose state was T1.                      *)
Follows(B, T1, T2) ==
    /\ T1.root \in B[T2.root].chain
    /\ \A n \in Nat : Reaches(T1, n) => Reaches(T2, n)
    /\ \A v \in T1.votes : Upheld(B, v, T2)
    /\ \A w \in T2.votes : Reaches(T1, w.slot) => \E v \in T1.votes : v.slot = w.slot
    /\ \A v \in T1.votes, w \in T2.votes : v.slot = w.slot => v.conf <= w.conf

-----------------------------------------------------------------------------
(* What the argument needs of finite sets and of the natural numbers: a    *)
(* hypothesis of the lemmas, until the end of the proofs takes it from the *)
(* library of theorems.                                                    *)
SetFacts ==
    /\ IsFiniteSet({}) /\ Cardinality({}) = 0
    /\ \A S : IsFiniteSet(S) => Cardinality(S) \in Nat /\ (Cardinality(S) = 0 <=> S = {})
    /\ \A S, T : IsFiniteSet(T) /\ S \subseteq T => IsFiniteSet(S) /\ Cardinality(S) <= Cardinality(T)
    /\ \A S, x : IsFiniteSet(S) /\ x \notin S =>
          IsFiniteSet(S \cup {x}) /\ Cardinality(S \cup {x}) = Cardinality(S) + 1
    /\ \A S, x : IsFiniteSet(S) /\ x \in S => Cardinality(S \ {x}) = Cardinality(S) - 1
    /\ \A S, f : IsFiniteSet(S) =>
          IsFiniteSet({f[x] : x \in S}) /\ Cardinality({f[x] : x \in S}) <= Cardinality(S)
    /\ \A S : S \subseteq Nat /\ S # {} => \E x \in S : \A y \in S : x <= y

LEMMA Empty ==
    ASSUME SetFacts
    PROVE  /\ IsFiniteSet({}) /\ Cardinality({}) = 0
           /\ \A S : IsFiniteSet(S) => (Cardinality(S) = 0 <=> S = {})
BY Zenon DEF SetFacts

LEMMA Fewer ==
    ASSUME SetFacts, NEW T, IsFiniteSet(T), NEW S \in SUBSET T
    PROVE  /\ IsFiniteSet(S) /\ Cardinality(S) <= Cardinality(T)
           /\ Cardinality(S) \in Nat /\ Cardinality(T) \in Nat
BY Zenon DEF SetFacts

LEMMA OneMore ==
    ASSUME SetFacts, NEW S, IsFiniteSet(S), NEW x, x \notin S
    PROVE  IsFiniteSet(S \cup {x}) /\ Cardinality(S \cup {x}) = Cardinality(S) + 1
BY Zenon DEF SetFacts

LEMMA OneLess ==
    ASSUME SetFacts, NEW S, IsFiniteSet(S), NEW x \in S
    PROVE  IsFiniteSet(S \ {x}) /\ Cardinality(S \ {x}) = Cardinality(S) - 1
<1>1. S \ {x} \subseteq S
  BY Zenon
<1>. QED
  BY Zenon, <1>1 DEF SetFacts

LEMMA Image ==
    ASSUME SetFacts, NEW S, IsFiniteSet(S), NEW f
    PROVE  IsFiniteSet({f[x] : x \in S}) /\ Cardinality({f[x] : x \in S}) <= Cardinality(S)
BY DEF SetFacts

-----------------------------------------------------------------------------
(* Votes, trees and the order of towers                                    *)

(* A vote's slot, confirmation count and lockout are numbers, and more     *)
(* confirmations lock for longer.                                          *)
LEMMA VoteFacts ==
    /\ Slots \subseteq Nat
    /\ \A v \in Votes : /\ v.slot \in Nat /\ v.slot \in Slots
                        /\ v.conf \in Nat /\ v.conf \in 1 .. MaxLockoutHistory
                        /\ Lockout[v.conf] \in Nat
    /\ \A v, w \in Votes : v.conf <= w.conf => Lockout[v.conf] <= Lockout[w.conf]
BY LockoutAssumption DEF Votes, Slots

(* Chains: an ancestor of an ancestor is an ancestor, and of two ancestors *)
(* of a block the older is an ancestor of the newer.                       *)
LEMMA TreeFacts ==
    ASSUME NEW B, Tree(B)
    PROVE  /\ DOMAIN B \subseteq Nat
           /\ \A b \in DOMAIN B : \A x \in B[b].chain :
                 /\ x \in DOMAIN B /\ x \in Nat /\ x <= b
                 /\ B[x].chain \subseteq B[b].chain
                 /\ \A y \in B[b].chain : y <= x => y \in B[x].chain
<1>1. DOMAIN B \subseteq Nat
  BY Zenon, VoteFacts DEF Tree
<1>2. ASSUME NEW b \in DOMAIN B, NEW x \in B[b].chain
      PROVE  /\ x \in DOMAIN B /\ x \in Nat /\ x <= b
             /\ B[x].chain \subseteq B[b].chain
             /\ \A y \in B[b].chain : y <= x => y \in B[x].chain
  <2>1. B[x].chain = {y \in B[b].chain : y <= x}
    BY Zenon DEF Tree
  <2>. QED
    BY Zenon, <1>1, <2>1 DEF Tree
<1>. QED
  BY Zenon, <1>1, <1>2

(* A tower that has got to n has got to everything before n.               *)
LEMMA ReachesDown ==
    ASSUME NEW T, T.root \in Nat, T.votes \subseteq Votes,
           NEW m \in Nat, NEW n \in Nat, m <= n, Reaches(T, n)
    PROVE  Reaches(T, m)
BY VoteFacts DEF Reaches

(* A tower follows itself.                                                 *)
LEMMA FollowsItself ==
    ASSUME NEW B, Tree(B), NEW T, Stack(B, T)
    PROVE  Follows(B, T, T)
BY VoteFacts DEF Follows, Upheld, Stack, Small, Distinct, Tree

(* Later than later is later.                                              *)
LEMMA FollowsTransitive ==
    ASSUME NEW B, Tree(B), NEW T1, NEW T2, NEW T3,
           Stack(B, T1), Stack(B, T2), Stack(B, T3),
           Follows(B, T1, T2), Follows(B, T2, T3)
    PROVE  Follows(B, T1, T3)
<1>1. T1.root \in B[T3.root].chain
  BY Zenon, TreeFacts DEF Follows, Stack
<1>2. \A n \in Nat : Reaches(T1, n) => Reaches(T3, n)
  BY Zenon DEF Follows
<1>3. \A w \in T3.votes : Reaches(T1, w.slot) => \E v \in T1.votes : v.slot = w.slot
  <2> SUFFICES ASSUME NEW w \in T3.votes, Reaches(T1, w.slot)
               PROVE  \E v \in T1.votes : v.slot = w.slot
    BY Zenon
  <2>1. w.slot \in Nat
    BY Zenon, VoteFacts DEF Stack, Small
  <2>2. PICK x \in T2.votes : x.slot = w.slot
    BY Zenon, <2>1 DEF Follows
  <2>. QED
    BY Zenon, <2>2 DEF Follows
<1>4. \A v \in T1.votes, w \in T3.votes : v.slot = w.slot => v.conf <= w.conf
  <2> SUFFICES ASSUME NEW v \in T1.votes, NEW w \in T3.votes, v.slot = w.slot
               PROVE  v.conf <= w.conf
    BY Zenon
  <2>1. v \in Votes /\ w \in Votes /\ T2.votes \subseteq Votes
    BY Zenon DEF Stack, Small
  <2>2. Reaches(T1, w.slot) /\ w.slot \in Nat
    BY <2>1, VoteFacts DEF Reaches
  <2>3. PICK x \in T2.votes : x.slot = w.slot
    BY Zenon, <2>2 DEF Follows
  <2>4. v.conf <= x.conf /\ x.conf <= w.conf
    BY Zenon, <2>3 DEF Follows
  <2>. QED
    BY <2>1, <2>4, VoteFacts
<1>5. \A v \in T1.votes : Upheld(B, v, T3)
  <2> SUFFICES ASSUME NEW v \in T1.votes
               PROVE  Upheld(B, v, T3)
    BY Zenon
  <2> DEFINE e == v.slot + Lockout[v.conf]
  <2>1. /\ v \in Votes /\ T2.votes \subseteq Votes /\ T3.votes \subseteq Votes
        /\ T2.root \in DOMAIN B /\ T3.root \in DOMAIN B
    BY Zenon DEF Stack, Small
  <2>2. v.slot \in Nat /\ e \in Nat /\ e + 1 \in Nat
    BY <2>1, VoteFacts
  <2>3. CASE \E x \in T2.votes : x.slot = v.slot
    <3>1. PICK x \in T2.votes : x.slot = v.slot
      BY Zenon, <2>3
    <3>2. x \in Votes /\ v.conf <= x.conf
      BY Zenon, <2>1, <3>1 DEF Follows
    <3>3. Lockout[v.conf] <= Lockout[x.conf] /\ Lockout[v.conf] \in Nat /\ Lockout[x.conf] \in Nat
      BY Zenon, <2>1, <3>2, VoteFacts
    <3>4. Upheld(B, x, T3)
      BY Zenon DEF Follows
    <3>5. Reaches(T3, x.slot + Lockout[x.conf] + 1) => Reaches(T3, e + 1)
      BY <2>1, <2>2, <3>1, <3>3, TreeFacts, ReachesDown
    <3>6. \A w \in T3.votes : w.slot > v.slot + Lockout[x.conf] => w.slot > e
      BY <2>1, <2>2, <3>3, VoteFacts
    <3>. QED
      BY Zenon, <3>1, <3>4, <3>5, <3>6 DEF Upheld
  <2>4. CASE v.slot \in B[T2.root].chain
    <3>1. v.slot \in B[T3.root].chain
      BY Zenon, <2>1, <2>4, TreeFacts DEF Follows
    <3>. QED
      BY Zenon, <3>1 DEF Upheld
  <2>5. CASE /\ Reaches(T2, e + 1)
             /\ \A w \in T2.votes : w.slot > v.slot => w.slot > e
    <3>1. Reaches(T3, e + 1)
      BY Zenon, <2>2, <2>5 DEF Follows
    <3>2. ASSUME NEW w \in T3.votes, w.slot > v.slot
          PROVE  w.slot > e
      <4>1. w.slot \in Nat
        BY Zenon, <2>1, VoteFacts
      <4>2. CASE Reaches(T2, w.slot)
        BY Zenon, <2>5, <3>2, <4>2 DEF Follows
      <4>3. CASE ~Reaches(T2, w.slot)
        BY <2>1, <2>2, <2>5, <4>1, <4>3, ReachesDown, TreeFacts
      <4>. QED
        BY Zenon, <4>2, <4>3
    <3>. QED
      BY Zenon, <3>1, <3>2 DEF Upheld
  <2>. QED
    BY Zenon, <2>3, <2>4, <2>5 DEF Upheld, Follows
<1>. QED
  BY Zenon, <1>1, <1>2, <1>3, <1>4, <1>5 DEF Follows

-----------------------------------------------------------------------------
(* A vote on the tower                                                     *)

(* The vote that a vote for s roots, the votes that stay, and the stack    *)
(* whose lockouts are then doubled.                                        *)
Oldest(votes) == {v \in votes : \A w \in votes : v.slot <= w.slot}

Rooted(T, s) ==
    IF Cardinality(PopExpiredVotes(T.votes, s)) = MaxLockoutHistory
    THEN Oldest(PopExpiredVotes(T.votes, s)) ELSE {}

Rest(T, s) == PopExpiredVotes(T.votes, s) \ Rooted(T, s)

NewVote(s) == [slot |-> s, conf |-> 1]

Stacked(T, s) == Rest(T, s) \cup {NewVote(s)}

(* A set of numbers that is not empty has a smallest one, and a set of     *)
(* votes an oldest one.                                                    *)
LEMMA Smallest ==
    ASSUME SetFacts, NEW S, S \subseteq Nat, S # {}
    PROVE  \E m \in S : \A y \in S : m <= y
BY Zenon DEF SetFacts

LEMMA OldestExists ==
    ASSUME SetFacts, NEW votes, votes \subseteq Votes, votes # {}
    PROVE  Oldest(votes) # {}
<1> DEFINE S == {v.slot : v \in votes}
<1>1. S \subseteq Nat /\ S # {}
  BY Zenon, VoteFacts
<1>2. PICK m \in S : \A y \in S : m <= y
  BY Zenon, <1>1, Smallest
<1>3. PICK v \in votes : v.slot = m
  BY Zenon, <1>2
<1>. QED
  BY Zenon, <1>2, <1>3 DEF Oldest

(* process_next_vote_slot on a tower without newer votes, apart from the   *)
(* doubling: what stays, what is rooted and what expired.                  *)
LEMMA NextVote ==
    ASSUME SetFacts, NEW T, Small(T.votes), NEW s \in Slots,
           \A v \in T.votes : v.slot < s
    PROVE  /\ Rest(T, s) \subseteq T.votes
           /\ Rooted(T, s) \subseteq T.votes
           /\ IsFiniteSet(Rest(T, s))
           /\ Cardinality(Rest(T, s)) < MaxLockoutHistory
           /\ \A v \in T.votes :
                 \/ v \in Rest(T, s)
                 \/ v \in Rooted(T, s)
                 \/ /\ v.slot + Lockout[v.conf] < s
                    /\ \A w \in Rest(T, s) : w.slot < v.slot
           /\ \A v, w \in Rest(T, s), x \in T.votes :
                 v.slot < x.slot /\ x.slot < w.slot => x \in Rest(T, s)
           /\ \A v \in Rest(T, s) :
                 \/ \E w \in Rest(T, s) : v.slot < w.slot
                 \/ IsLockedOutAtSlot(v, s)
           /\ \A v \in Rooted(T, s) :
                 /\ Rooted(T, s) = {v}
                 /\ Rest(T, s) # {}
                 /\ \A w \in Rest(T, s) : v.slot < w.slot
<1> DEFINE kept == PopExpiredVotes(T.votes, s)
<1>1. T.votes \subseteq Votes /\ kept \subseteq T.votes
  BY Zenon DEF Small, PopExpiredVotes
<1>2. \A v \in kept, w \in T.votes : w.slot <= v.slot => w \in kept
  BY <1>1, VoteFacts DEF PopExpiredVotes
<1>3. \A v \in T.votes \ kept : v.slot + Lockout[v.conf] < s
  BY <1>1, VoteFacts DEF PopExpiredVotes, IsLockedOutAtSlot
<1>4. \A v \in kept : (\E w \in kept : v.slot < w.slot) \/ IsLockedOutAtSlot(v, s)
  <2> SUFFICES ASSUME NEW v \in kept
               PROVE  (\E w \in kept : v.slot < w.slot) \/ IsLockedOutAtSlot(v, s)
    BY Zenon
  <2>1. PICK w \in T.votes : v.slot <= w.slot /\ IsLockedOutAtSlot(w, s)
    BY Zenon DEF PopExpiredVotes
  <2>2. w \in kept
    BY <1>1, <2>1, VoteFacts DEF PopExpiredVotes
  <2>3. CASE v.slot = w.slot
    BY Zenon, <1>1, <2>1, <2>3 DEF Small, Distinct
  <2>. QED
    BY <1>1, <2>1, <2>2, <2>3, VoteFacts
<1>5. IsFiniteSet(kept) /\ Cardinality(kept) \in Nat /\ Cardinality(kept) <= MaxLockoutHistory
  BY <1>1, Fewer, LockoutAssumption DEF Small
<1>6. Oldest(kept) \subseteq kept /\ \A v, w \in Oldest(kept) : v = w
  BY <1>1, VoteFacts DEF Oldest, Small, Distinct
<1>7. CASE Cardinality(kept) = MaxLockoutHistory
  <2>1. kept # {}
    BY Zenon, <1>7, Empty, LockoutAssumption
  <2>2. PICK o : o \in Oldest(kept)
    BY Zenon, <1>1, <2>1, OldestExists
  <2>3. Rooted(T, s) = {o} /\ Rest(T, s) = kept \ {o} /\ o \in kept
    BY Zenon, <1>6, <1>7, <2>2 DEF Rooted, Rest
  <2>4. /\ IsFiniteSet(kept \ {o})
        /\ Cardinality(kept \ {o}) = MaxLockoutHistory - 1
    BY Zenon, <1>5, <1>7, <2>3, OneLess
  <2>5. kept \ {o} # {}
    BY <2>4, Empty, LockoutAssumption
  <2>6. \A w \in kept \ {o} : o.slot < w.slot
    BY <1>1, <2>2, <2>3, VoteFacts DEF Oldest, Small, Distinct
  <2>7. \A v \in T.votes \ kept : \A w \in kept : w.slot < v.slot
    BY <1>1, <1>2, VoteFacts
  <2>8. \A v, w \in kept \ {o}, x \in T.votes :
           v.slot < x.slot /\ x.slot < w.slot => x \in kept \ {o}
    BY <1>1, <1>2, <2>3, <2>6, VoteFacts
  <2>9. \A v \in kept \ {o} :
           (\E w \in kept \ {o} : v.slot < w.slot) \/ IsLockedOutAtSlot(v, s)
    BY <1>1, <1>4, <2>3, <2>6, VoteFacts
  <2>10. Cardinality(kept \ {o}) < MaxLockoutHistory
    BY <2>4, LockoutAssumption
  <2>. QED
    BY Zenon, <1>1, <1>3, <2>3, <2>4, <2>5, <2>6, <2>7, <2>8, <2>9, <2>10
<1>8. CASE Cardinality(kept) # MaxLockoutHistory
  <2>1. Rooted(T, s) = {} /\ Rest(T, s) = kept
    BY Zenon, <1>8 DEF Rooted, Rest
  <2>2. Cardinality(kept) < MaxLockoutHistory
    BY <1>5, <1>8, LockoutAssumption
  <2>3. \A v \in T.votes \ kept : \A w \in kept : w.slot < v.slot
    BY <1>1, <1>2, VoteFacts
  <2>4. \A v, w \in kept, x \in T.votes :
           v.slot < x.slot /\ x.slot < w.slot => x \in kept
    BY <1>1, <1>2, VoteFacts
  <2>. QED
    BY Zenon, <1>1, <1>3, <1>4, <1>5, <2>1, <2>2, <2>3, <2>4
<1>. QED
  BY Zenon, <1>7, <1>8

(* double_lockouts keeps the slots and never lowers a confirmation count;  *)
(* on a stack whose counts decrease, but for a new vote on top, they       *)
(* decrease afterwards.                                                    *)
LEMMA Doubled ==
    ASSUME SetFacts, NEW votes, Small(votes),
           \A v, w \in votes : v.slot < w.slot =>
              v.conf > w.conf \/ (w.conf = 1 /\ \A x \in votes : x.slot <= w.slot)
    PROVE  /\ Small(DoubleLockouts(votes))
           /\ \A v \in votes : \E x \in DoubleLockouts(votes) :
                 x.slot = v.slot /\ v.conf <= x.conf
           /\ \A x \in DoubleLockouts(votes) : \E v \in votes :
                 x.slot = v.slot /\ v.conf <= x.conf
           /\ \A x, y \in DoubleLockouts(votes) : x.slot < y.slot => x.conf > y.conf
<1> DEFINE n == Cardinality(votes)
           b(v) == Cardinality(Below(votes, v))
           up(v) == IF n > b(v) + v.conf THEN v.conf + 1 ELSE v.conf
           d(v) == [slot |-> v.slot, conf |-> up(v)]
           f == [v \in votes |-> d(v)]
<1>1. votes \subseteq Votes /\ IsFiniteSet(votes) /\ n \in Nat /\ n <= MaxLockoutHistory
  BY Zenon DEF Small, SetFacts
<1>2. ASSUME NEW v \in votes
      PROVE  /\ b(v) \in Nat
             /\ b(v) + 1 <= n
             /\ v.conf \in Nat /\ v.conf >= 1 /\ v.conf <= MaxLockoutHistory
  <2>1. v \notin Below(votes, v) /\ Below(votes, v) \subseteq votes
    BY <1>1, VoteFacts DEF Below
  <2>2. IsFiniteSet(Below(votes, v)) /\ b(v) \in Nat
    BY Zenon, <1>1, <2>1, Fewer
  <2>3. Cardinality(Below(votes, v) \cup {v}) = b(v) + 1
    BY Zenon, <2>1, <2>2, OneMore
  <2>4. Cardinality(Below(votes, v) \cup {v}) <= n
    <3>1. Below(votes, v) \cup {v} \in SUBSET votes
      BY Zenon, <2>1
    <3>. QED
      BY Zenon, <1>1, <3>1, Fewer
  <2>. QED
    BY <1>1, <2>2, <2>3, <2>4, VoteFacts
<1>3. ASSUME NEW v \in votes
      PROVE  d(v) \in Votes /\ up(v) \in Nat /\ v.conf <= up(v)
  <2>1. v.slot \in Slots
    BY Zenon, <1>1, VoteFacts
  <2>2. up(v) \in 1 .. MaxLockoutHistory
    BY <1>1, <1>2, LockoutAssumption
  <2>3. v.conf <= up(v) /\ up(v) \in Nat
    BY <1>1, <1>2
  <2>. QED
    BY Zenon, <2>1, <2>2, <2>3 DEF Votes
<1>4. DoubleLockouts(votes) = {d(v) : v \in votes}
  <2>1. ASSUME NEW v \in votes
        PROVE  [v EXCEPT !.conf = up(v)] = d(v)
    BY <1>1 DEF Votes
  <2>2. DoubleLockouts(votes) = {[v EXCEPT !.conf = up(v)] : v \in votes}
    BY Zenon DEF DoubleLockouts
  <2> HIDE DEF d, up
  <2>. QED
    BY Zenon, <2>1, <2>2
<1>5. {f[v] : v \in votes} = {d(v) : v \in votes}
  BY Zenon
<1>6. /\ IsFiniteSet({d(v) : v \in votes})
      /\ Cardinality({d(v) : v \in votes}) <= n
      /\ Cardinality({d(v) : v \in votes}) \in Nat
  <2>1. IsFiniteSet({f[v] : v \in votes}) /\ Cardinality({f[v] : v \in votes}) <= n
    <3> HIDE DEF f
    <3>. QED
      BY Zenon, <1>1, Image
  <2>2. IsFiniteSet({d(v) : v \in votes}) /\ Cardinality({d(v) : v \in votes}) <= n
    BY Zenon, <1>5, <2>1
  <2> HIDE DEF d
  <2>. QED
    BY Zenon, <2>2 DEF SetFacts
<1>7. Distinct({d(v) : v \in votes})
  <2>1. \A v, w \in votes : v.slot = w.slot => v = w
    BY Zenon DEF Small, Distinct
  <2>. QED
    BY <2>1 DEF Distinct
<1>8. Small(DoubleLockouts(votes))
  <2>1. {d(v) : v \in votes} \subseteq Votes
    BY Zenon, <1>3
  <2>2. Cardinality({d(v) : v \in votes}) <= MaxLockoutHistory
    BY <1>1, <1>6, LockoutAssumption
  <2>. QED
    BY Zenon, <1>4, <1>6, <1>7, <2>1, <2>2 DEF Small
<1>9. ASSUME NEW v \in votes, NEW w \in votes, v.slot < w.slot
      PROVE  up(v) > up(w)
  <2>1. b(v) + 1 <= b(w)
    <3>1. v \notin Below(votes, v) /\ Below(votes, v) \cup {v} \subseteq Below(votes, w)
      BY <1>1, <1>9, VoteFacts DEF Below
    <3>2. IsFiniteSet(Below(votes, v)) /\ IsFiniteSet(Below(votes, w))
      <4>1. Below(votes, v) \in SUBSET votes /\ Below(votes, w) \in SUBSET votes
        BY Zenon DEF Below
      <4>. QED
        BY Zenon, <1>1, <4>1, Fewer
    <3>3. Cardinality(Below(votes, v) \cup {v}) = b(v) + 1
      BY Zenon, <3>1, <3>2, OneMore
    <3>4. Cardinality(Below(votes, v) \cup {v}) <= b(w)
      BY Zenon, <3>1, <3>2, Fewer
    <3>. QED
      BY Zenon, <3>3, <3>4
  <2>2. CASE v.conf > w.conf
    BY <1>1, <1>2, <2>1, <2>2
  <2>3. CASE w.conf = 1 /\ \A x \in votes : x.slot <= w.slot
    <3>1. Below(votes, w) = votes \ {w}
      BY <1>1, <2>3, VoteFacts DEF Below, Small, Distinct
    <3>2. b(w) = n - 1
      BY Zenon, <1>1, <3>1, OneLess
    <3>. QED
      BY <1>1, <1>2, <2>1, <2>3, <3>2
  <2>. QED
    BY Zenon, <1>9, <2>2, <2>3
<1>10. \A v \in votes : \E x \in {d(w) : w \in votes} : x.slot = v.slot /\ v.conf <= x.conf
  <2> SUFFICES ASSUME NEW v \in votes
               PROVE  \E x \in {d(w) : w \in votes} : x.slot = v.slot /\ v.conf <= x.conf
    BY Zenon
  <2>1. d(v).slot = v.slot /\ d(v).conf = up(v)
    BY Zenon
  <2>. QED
    BY Zenon, <1>3, <2>1
<1>11. \A x \in {d(w) : w \in votes} : \E v \in votes : x.slot = v.slot /\ v.conf <= x.conf
  BY <1>3
<1>12. \A x, y \in {d(w) : w \in votes} : x.slot < y.slot => x.conf > y.conf
  BY <1>9
<1>. QED
  BY Zenon, <1>4, <1>8, <1>10, <1>11, <1>12

(* record_bank_vote for a bank s that is not locked out: the new tower can *)
(* be pushed and follows the old one.                                      *)
LEMMA Voted ==
    ASSUME SetFacts, NEW B, Tree(B), NEW T \in Towers, Stack(B, T),
           NEW s \in DOMAIN B, T.root \in B[s].chain, T.root # s,
           \A v \in T.votes : v.slot < s,
           NEW N, N = ProcessNextVoteSlot(T, s),
           \A v \in N.votes : v.slot = s \/ v.slot \in B[s].chain
    PROVE  /\ N \in Towers /\ N.pushed = T.pushed
           /\ Votable(B, N)
           /\ Follows(B, T, N)
           /\ N.root \in B[s].chain /\ N.root # s
           /\ \E v \in N.votes : v.slot = s
           /\ \A v \in N.votes : v.slot <= s
<1> DEFINE rest == Rest(T, s)
           rooted == Rooted(T, s)
           stacked == Stacked(T, s)
           doubled == DoubleLockouts(Stacked(T, s))
<1>1. /\ s \in Slots /\ s \in Nat /\ T.root \in DOMAIN B /\ T.root \in Nat /\ T.root < s
      /\ T.votes \subseteq Votes /\ Small(T.votes)
  BY TreeFacts DEF Tree, Stack, Small
<1>2. /\ N.votes = doubled
      /\ N.root = IF rooted = {} THEN T.root ELSE (CHOOSE v \in rooted : TRUE).slot
      /\ N.pushed = T.pushed /\ N.stray = T.stray
      /\ DOMAIN N = DOMAIN T
      /\ N = [votes |-> N.votes, root |-> N.root, stray |-> N.stray, pushed |-> N.pushed]
  <2>1. ~\E v \in T.votes : s <= v.slot
    BY <1>1, VoteFacts
  <2>2. N = [T EXCEPT !.votes = doubled,
                      !.root = IF rooted = {} THEN @
                               ELSE (CHOOSE v \in rooted : TRUE).slot]
    BY Zenon, <2>1 DEF ProcessNextVoteSlot, Rooted, Rest, Stacked, NewVote, Oldest
  <2>. QED
    BY Zenon, <2>2 DEF Towers
<1>3. /\ rest \subseteq T.votes /\ rooted \subseteq T.votes
      /\ IsFiniteSet(rest) /\ Cardinality(rest) < MaxLockoutHistory
      /\ \A v \in T.votes :
            \/ v \in rest
            \/ v \in rooted
            \/ /\ v.slot + Lockout[v.conf] < s
               /\ \A w \in rest : w.slot < v.slot
      /\ \A v, w \in rest, x \in T.votes :
            v.slot < x.slot /\ x.slot < w.slot => x \in rest
      /\ \A v \in rest :
            (\E w \in rest : v.slot < w.slot) \/ IsLockedOutAtSlot(v, s)
      /\ \A v \in rooted :
            rooted = {v} /\ rest # {} /\ \A w \in rest : v.slot < w.slot
  BY Zenon, <1>1, NextVote
<1>4. /\ \A v \in rest : v \in Votes /\ v.slot < s /\ v.slot \in Nat
      /\ NewVote(s) \in Votes /\ NewVote(s).slot = s /\ NewVote(s).conf = 1
  BY <1>1, <1>3, VoteFacts, LockoutAssumption DEF NewVote, Votes
<1>5. Small(stacked)
  <2>1. NewVote(s) \notin rest
    BY <1>1, <1>4
  <2>2. IsFiniteSet(stacked) /\ Cardinality(stacked) = Cardinality(rest) + 1
    BY Zenon, <1>3, <2>1, OneMore DEF Stacked
  <2>3. Cardinality(rest) \in Nat
    BY Zenon, <1>3 DEF SetFacts
  <2>4. Cardinality(stacked) <= MaxLockoutHistory
    BY <1>3, <2>2, <2>3, LockoutAssumption
  <2>5. Distinct(rest)
    BY Zenon, <1>1, <1>3 DEF Small, Distinct
  <2>6. Distinct(stacked)
    BY <1>1, <1>4, <2>5 DEF Distinct, Stacked
  <2>. QED
    BY Zenon, <1>4, <2>2, <2>4, <2>6 DEF Small, Stacked
<1>6. \A v, w \in stacked : v.slot < w.slot =>
         v.conf > w.conf \/ (w.conf = 1 /\ \A x \in stacked : x.slot <= w.slot)
  <2>1. \A v, w \in rest : v.slot < w.slot => v.conf > w.conf
    BY Zenon, <1>3 DEF Stack
  <2>. QED
    BY <1>1, <1>4, <2>1 DEF Stacked
<1>7. /\ Small(doubled)
      /\ \A v \in rest : \E x \in doubled : x.slot = v.slot /\ v.conf <= x.conf
      /\ \E x \in doubled : x.slot = s
      /\ \A x \in doubled :
            x.slot = s \/ \E v \in rest : x.slot = v.slot /\ v.conf <= x.conf
      /\ \A x, y \in doubled : x.slot < y.slot => x.conf > y.conf
  <2>1. /\ Small(doubled)
        /\ \A v \in stacked : \E x \in doubled : x.slot = v.slot /\ v.conf <= x.conf
        /\ \A x \in doubled : \E v \in stacked : x.slot = v.slot /\ v.conf <= x.conf
        /\ \A x, y \in doubled : x.slot < y.slot => x.conf > y.conf
    BY Zenon, <1>5, <1>6, Doubled
  <2>. QED
    BY Zenon, <1>4, <2>1 DEF Stacked
<1>8. \A v \in rest : v.slot \in B[s].chain /\ v.slot \notin B[T.root].chain
  BY <1>2, <1>3, <1>4, <1>7 DEF Stack
<1>9. /\ N.root \in B[s].chain /\ T.root \in B[N.root].chain /\ N.root < s
      /\ N.root \in Nat /\ N.root \in DOMAIN B
      /\ \A w \in rest : N.root < w.slot
      /\ \A o \in rooted : o.slot = N.root
  <2>1. CASE rooted = {}
    <3>1. N.root = T.root
      BY Zenon, <1>2, <2>1
    <3>2. \A w \in rest : T.root < w.slot
      BY <1>1, <1>4, <1>8, TreeFacts
    <3>3. T.root \in B[T.root].chain
      BY Zenon, <1>1 DEF Tree
    <3>. QED
      BY Zenon, <1>1, <2>1, <3>1, <3>2, <3>3
  <2>2. CASE rooted # {}
    <3>1. PICK o : o \in rooted
      BY Zenon, <2>2
    <3>2. rooted = {o} /\ rest # {} /\ \A w \in rest : o.slot < w.slot
      BY Zenon, <1>3, <3>1
    <3>3. N.root = o.slot
      BY Zenon, <1>2, <3>2
    <3>4. PICK w : w \in rest
      BY Zenon, <3>2
    <3>5. /\ o \in T.votes /\ w \in T.votes /\ o.slot \in Nat /\ o.slot < s
          /\ o.slot \in DOMAIN B /\ o.slot <= w.slot /\ o.slot \notin B[T.root].chain
      BY <1>1, <1>3, <1>4, <3>1, <3>2, <3>4, VoteFacts DEF Stack
    <3>6. o.slot \in B[w.slot].chain
      BY Zenon, <3>5 DEF Stack
    <3>7. o.slot \in B[s].chain
      BY Zenon, <1>8, <3>4, <3>6, TreeFacts
    <3>8. T.root <= o.slot
      BY <1>1, <3>5, <3>7, TreeFacts
    <3>9. T.root \in B[o.slot].chain
      BY Zenon, <3>7, <3>8, TreeFacts
    <3>. QED
      BY Zenon, <3>2, <3>3, <3>5, <3>7, <3>9
  <2>. QED
    BY Zenon, <2>1, <2>2
<1>10. \A x \in doubled :
          /\ x \in Votes /\ x.slot \in Nat /\ x.slot <= s
          /\ x.slot \in B[s].chain /\ x.slot \in DOMAIN B
          /\ N.root < x.slot
  <2>1. s \in B[s].chain
    BY Zenon DEF Tree
  <2>2. doubled \subseteq Votes
    BY Zenon, <1>7 DEF Small
  <2>. QED
    BY <1>1, <1>4, <1>7, <1>8, <1>9, <2>1, <2>2, TreeFacts
<1>11. Stack(B, N)
  <2>1. ASSUME NEW v \in doubled, v.slot \in B[N.root].chain
        PROVE  FALSE
    <3>1. v.slot <= N.root
      BY Zenon, <1>9, <2>1, TreeFacts
    <3>. QED
      BY <1>9, <1>10, <3>1
  <2>2. \A v, w \in doubled : v.slot <= w.slot => v.slot \in B[w.slot].chain
    BY Zenon, <1>10, TreeFacts
  <2>3. ASSUME NEW x \in doubled, NEW y \in doubled, x.slot < y.slot,
               ~\E z \in doubled : x.slot < z.slot /\ z.slot < y.slot
        PROVE  IsLockedOutAtSlot(x, y.slot)
    <3>1. x.slot # s
      BY <1>1, <1>10, <2>3
    <3>2. PICK v \in rest : x.slot = v.slot /\ v.conf <= x.conf
      BY Zenon, <1>7, <3>1
    <3>3. /\ v \in Votes /\ x \in Votes /\ Lockout[v.conf] <= Lockout[x.conf]
          /\ Lockout[v.conf] \in Nat /\ Lockout[x.conf] \in Nat
          /\ v.slot \in Nat /\ y.slot \in Nat
      BY Zenon, <1>4, <1>10, <3>2, VoteFacts
    <3>4. IsLockedOutAtSlot(v, y.slot)
      <4>1. CASE y.slot = s
        <5>1. ~\E w \in rest : v.slot < w.slot
          BY <1>4, <1>7, <2>3, <3>2, <4>1
        <5>. QED
          BY Zenon, <1>3, <4>1, <5>1
      <4>2. CASE y.slot # s
        <5>1. PICK w \in rest : y.slot = w.slot
          BY Zenon, <1>7, <4>2
        <5>2. ~\E z \in T.votes : v.slot < z.slot /\ z.slot < w.slot
          BY Zenon, <1>3, <1>7, <2>3, <3>2, <5>1
        <5>. QED
          BY Zenon, <1>3, <2>3, <3>2, <5>1, <5>2 DEF Stack
      <4>. QED
        BY Zenon, <4>1, <4>2
    <3>. QED
      BY <3>2, <3>3, <3>4 DEF IsLockedOutAtSlot
  <2>4. \A x, y \in doubled : x.slot < y.slot =>
           /\ x.conf > y.conf
           /\ \/ \E z \in doubled : x.slot < z.slot /\ z.slot < y.slot
              \/ IsLockedOutAtSlot(x, y.slot)
    BY Zenon, <1>7, <2>3
  <2>5. Small(doubled) /\ \A v \in doubled : v.slot \in DOMAIN B /\ v.slot \notin B[N.root].chain
    BY Zenon, <1>7, <1>10, <2>1
  <2> HIDE DEF doubled
  <2>. QED
    BY Zenon, <1>2, <1>9, <2>2, <2>4, <2>5 DEF Stack
<1>12. Votable(B, N)
  <2>1. \A v \in doubled : N.root \in B[v.slot].chain
    BY <1>9, <1>10, TreeFacts
  <2>. QED
    BY Zenon, <1>2, <1>7, <1>10, <1>11, <2>1 DEF Votable
<1>13. Follows(B, T, N)
  <2>1. \A n \in Nat : Reaches(T, n) => Reaches(N, n)
    BY <1>1, <1>2, <1>7, VoteFacts DEF Reaches
  <2>2. \A w \in N.votes : Reaches(T, w.slot) => \E v \in T.votes : v.slot = w.slot
    <3>1. ~Reaches(T, s)
      BY <1>1, VoteFacts DEF Reaches
    <3>. QED
      BY <1>2, <1>3, <1>7, <3>1
  <2>3. \A v \in T.votes, w \in N.votes : v.slot = w.slot => v.conf <= w.conf
    <3>1. ASSUME NEW v \in T.votes, NEW w \in N.votes, v.slot = w.slot
          PROVE  v.conf <= w.conf
      <4>1. w.slot # s
        BY <1>1, <3>1, VoteFacts
      <4>2. PICK x \in rest : x.slot = w.slot /\ x.conf <= w.conf
        BY Zenon, <1>2, <1>7, <4>1
      <4>3. x = v
        BY Zenon, <1>1, <1>3, <3>1, <4>2 DEF Small, Distinct
      <4>. QED
        BY Zenon, <4>2, <4>3
    <3>. QED
      BY Zenon, <3>1
  <2>4. ASSUME NEW v \in T.votes
        PROVE  Upheld(B, v, N)
    <3>1. CASE v \in rest
      BY Zenon, <1>2, <1>7, <3>1 DEF Upheld
    <3>2. CASE v \in rooted
      <4>1. v.slot \in B[N.root].chain
        BY Zenon, <1>9, <3>2 DEF Tree
      <4>. QED
        BY Zenon, <4>1 DEF Upheld
    <3>3. CASE /\ v.slot + Lockout[v.conf] < s
               /\ \A w \in rest : w.slot < v.slot
      <4>1. v \in Votes /\ v.slot \in Nat /\ Lockout[v.conf] \in Nat
        BY Zenon, <1>1, VoteFacts
      <4>2. Reaches(N, v.slot + Lockout[v.conf] + 1)
        BY <1>1, <1>2, <1>7, <3>3, <4>1 DEF Reaches
      <4>3. \A w \in doubled : w.slot > v.slot => w.slot = s
        BY <1>4, <1>7, <3>3, <4>1
      <4>. QED
        BY Zenon, <1>2, <3>3, <4>2, <4>3 DEF Upheld
    <3>. QED
      BY Zenon, <1>3, <3>1, <3>2, <3>3
  <2>. QED
    BY Zenon, <1>9, <2>1, <2>2, <2>3, <2>4 DEF Follows
<1>14. N \in Towers
  <2>1. N.votes \in SUBSET Votes /\ N.root \in Slots /\ N.stray \in SUBSET Slots /\ N.pushed \in BOOLEAN
    BY Zenon, <1>2, <1>7, <1>9 DEF Small, Towers, Tree
  <2>. QED
    BY Zenon, <1>2, <2>1 DEF Towers
<1>. QED
  BY <1>2, <1>7, <1>9, <1>10, <1>12, <1>13, <1>14

-----------------------------------------------------------------------------
(* A restart, and a tree that grows                                        *)

(* adjust_lockouts_after_replay at a root that descends from the root of   *)
(* the saved tower: nothing fails, and the tower follows the saved one.    *)
LEMMA Restored ==
    ASSUME SetFacts, Tree(blocks), NEW S \in VoteStates, Votable(blocks, S),
           NEW r \in DOMAIN blocks, S.root \in blocks[r].chain,
           NEW A, A = AdjustLockoutsAfterReplay(S, r)
    PROVE  /\ S.root <= r /\ Restorable(S, r)
           /\ A \in Towers /\ A.root = r /\ A.pushed = FALSE
           /\ LastVotedSlot(A) \subseteq A.stray
           /\ Stack(blocks, A)
           /\ Follows(blocks, S, A)
<1> DEFINE C == blocks[r].chain
           kept == {v \in S.votes : \A a \in Anchors(S, r) : a < v.slot}
<1>1. /\ r \in Nat /\ r \in Slots /\ S.root \in Nat /\ S.root <= r /\ S.root \in DOMAIN blocks
      /\ S.votes \subseteq Votes /\ Small(S.votes) /\ Stack(blocks, S) /\ S.votes # {}
      /\ \A x \in C : x \in Nat /\ x <= r /\ x \in DOMAIN blocks
      /\ r \in C
  BY Zenon, TreeFacts DEF Tree, Votable, Stack, Small
<1>2. /\ SlotHistory(S, r) = C
      /\ Anchors(S, r) = (SlotsOf(S) \cup {S.root}) \cap C
      /\ S.root \in Anchors(S, r)
  BY Zenon, <1>1 DEF SlotHistory, Anchors
<1>3. \A v \in S.votes : /\ v.slot \in Nat /\ v.slot \in DOMAIN blocks
                         /\ S.root < v.slot /\ S.root \in blocks[v.slot].chain
  BY Zenon, <1>1, VoteFacts DEF Votable, Stack
<1>4. ASSUME NEW v \in S.votes, NEW a \in Anchors(S, r), ~(a < v.slot)
      PROVE  v.slot \in C
  <2>1. a # S.root
    BY Zenon, <1>1, <1>3, <1>4
  <2>2. PICK w \in S.votes : w.slot = a
    BY Zenon, <1>2, <2>1 DEF SlotsOf
  <2>3. v.slot \in blocks[w.slot].chain
    BY <1>1, <1>3, <1>4, <2>2 DEF Stack
  <2>. QED
    BY Zenon, <1>2, <2>2, <2>3, TreeFacts
<1>5. Restorable(S, r)
  <2>1. \A s \in (SlotsOf(S) \cup {S.root}) \ C : \A a \in Anchors(S, r) : a < s
    <3> SUFFICES ASSUME NEW s \in (SlotsOf(S) \cup {S.root}) \ C,
                        NEW a \in Anchors(S, r), ~(a < s)
                 PROVE  FALSE
      BY Zenon
    <3>1. PICK v \in S.votes : v.slot = s
      BY Zenon DEF SlotsOf
    <3>. QED
      BY Zenon, <1>4, <3>1
  <2>2. \A v \in S.votes : S.root <= v.slot
    BY <1>1, <1>3
  <2>. QED
    BY Zenon, <1>1, <1>2, <2>1, <2>2 DEF Restorable
<1>6. A = [votes |-> kept, root |-> r,
           stray |-> LastVotedSlot([votes |-> kept, root |-> r]), pushed |-> FALSE]
  BY Zenon, <1>1 DEF AdjustLockoutsAfterReplay
<1>7. A.votes = kept /\ A.root = r /\ A.pushed = FALSE /\ kept \subseteq S.votes
  BY <1>6
<1>8. LastVotedSlot(A) = LastVotedSlot([votes |-> kept, root |-> r])
  BY Zenon, <1>7 DEF LastVotedSlot, SlotsOf
<1>9. LastVotedSlot([votes |-> kept, root |-> r]) \subseteq Slots
  BY Zenon, <1>1, VoteFacts DEF LastVotedSlot, SlotsOf
<1>10. A \in Towers
  <2>1. kept \in SUBSET Votes
    BY Zenon, <1>1
  <2> HIDE DEF kept
  <2>. QED
    BY <1>1, <1>6, <1>9, <2>1 DEF Towers
<1>11. Stack(blocks, A)
  <2>1. Small(kept)
    <3>1. kept \in SUBSET S.votes
      BY Zenon
    <3>2. IsFiniteSet(S.votes) /\ Cardinality(S.votes) <= MaxLockoutHistory
      BY Zenon, <1>1 DEF Small
    <3>3. /\ IsFiniteSet(kept) /\ Cardinality(kept) <= Cardinality(S.votes)
          /\ Cardinality(kept) \in Nat /\ Cardinality(S.votes) \in Nat
      BY Zenon, <3>1, <3>2, Fewer
    <3>4. Distinct(kept)
      BY Zenon, <1>1 DEF Small, Distinct
    <3>5. kept \subseteq Votes /\ MaxLockoutHistory \in Nat
      BY Zenon, <1>1, LockoutAssumption
    <3> HIDE DEF kept
    <3>. QED
      BY <3>2, <3>3, <3>4, <3>5 DEF Small
  <2>2. \A v \in kept : v.slot \notin C
    <3> SUFFICES ASSUME NEW v \in kept, v.slot \in C
                 PROVE  FALSE
      BY Zenon
    <3>1. v.slot \in Anchors(S, r)
      BY Zenon, <1>2 DEF SlotsOf
    <3>. QED
      BY <1>3, <3>1
  <2>3. \A v, w \in kept : v.slot < w.slot =>
           /\ v.conf > w.conf
           /\ \/ \E x \in kept : v.slot < x.slot /\ x.slot < w.slot
              \/ IsLockedOutAtSlot(v, w.slot)
    <3> SUFFICES ASSUME NEW v \in kept, NEW w \in kept, v.slot < w.slot
                 PROVE  /\ v.conf > w.conf
                        /\ \/ \E x \in kept : v.slot < x.slot /\ x.slot < w.slot
                           \/ IsLockedOutAtSlot(v, w.slot)
      BY Zenon
    <3>1. v.conf > w.conf
      BY Zenon, <1>1 DEF Stack
    <3>2. \A x \in S.votes : v.slot < x.slot => x \in kept
      <4>1. \A a \in Anchors(S, r) : a \in Nat
        BY Zenon, <1>1, <1>2
      <4>. QED
        BY <1>3, <4>1
    <3>. QED
      BY Zenon, <1>1, <3>1, <3>2 DEF Stack
  <2>4. \A v, w \in kept : v.slot <= w.slot => v.slot \in blocks[w.slot].chain
    BY Zenon, <1>1 DEF Stack
  <2>. QED
    BY Zenon, <1>1, <1>3, <1>7, <2>1, <2>2, <2>3, <2>4 DEF Stack
<1>12. Follows(blocks, S, A)
  <2>1. ASSUME NEW n \in Nat, Reaches(S, n)
        PROVE  Reaches(A, n)
    <3>1. PICK w \in S.votes : n <= w.slot
      BY Zenon, <1>1, <2>1 DEF Reaches
    <3>2. CASE w \in kept
      BY Zenon, <1>7, <3>1, <3>2 DEF Reaches
    <3>3. CASE w \notin kept
      <4>1. w.slot \in C
        BY Zenon, <1>4, <3>3
      <4>2. CASE kept = {}
        BY <1>1, <1>3, <1>7, <3>1, <4>1, <4>2 DEF Reaches
      <4>3. CASE kept # {}
        <5>1. PICK v : v \in kept
          BY Zenon, <4>3
        <5>2. \A a \in Anchors(S, r) : a \in Nat
          BY Zenon, <1>1, <1>2
        <5>3. w.slot <= v.slot
          BY <1>3, <3>3, <5>1, <5>2
        <5>. QED
          BY <1>3, <1>7, <3>1, <5>1, <5>3 DEF Reaches
      <4>. QED
        BY Zenon, <4>2, <4>3
    <3>. QED
      BY Zenon, <3>2, <3>3
  <2>2. \A v \in S.votes : Upheld(blocks, v, A)
    BY Zenon, <1>4, <1>7 DEF Upheld
  <2>3. \A v \in S.votes, w \in A.votes : v.slot = w.slot => v.conf <= w.conf
    BY <1>1, <1>7, VoteFacts DEF Small, Distinct
  <2>. QED
    BY Zenon, <1>7, <2>1, <2>2, <2>3 DEF Follows
<1>13. LastVotedSlot(A) \subseteq A.stray
  <2> HIDE DEF kept
  <2>. QED
    BY <1>6, <1>8
<1>. QED
  BY Zenon, <1>1, <1>5, <1>7, <1>10, <1>11, <1>12, <1>13

(* A new block changes nothing about towers whose slots were there.        *)
LEMMA Grown ==
    ASSUME NEW B, NEW D, Tree(B), DOMAIN B \subseteq DOMAIN D,
           \A b \in DOMAIN B : D[b].chain = B[b].chain
    PROVE  /\ \A T : Stack(B, T) => Stack(D, T)
           /\ \A T : Votable(B, T) => Votable(D, T)
           /\ \A T1, T2 : Follows(B, T1, T2) /\ T2.root \in DOMAIN B
                             => Follows(D, T1, T2)
<1>1. ASSUME NEW T, Stack(B, T) PROVE Stack(D, T)
  BY Zenon, <1>1 DEF Stack
<1>2. ASSUME NEW T, Votable(B, T) PROVE Votable(D, T)
  BY Zenon, <1>1, <1>2 DEF Votable, Stack
<1>3. ASSUME NEW T1, NEW T2, Follows(B, T1, T2), T2.root \in DOMAIN B
      PROVE  Follows(D, T1, T2)
  BY Zenon, <1>3 DEF Follows, Upheld
<1>. QED
  BY Zenon, <1>1, <1>2, <1>3

-----------------------------------------------------------------------------
(* The inductive invariant                                                 *)

(* The tower and the roots: BankForks, the blockstore and the tower have   *)
(* the same root, on which a chain was built.                              *)
TowerInv ==
    /\ Tree(blocks)
    /\ tower \in Towers /\ Stack(blocks, tower)
    /\ tower.root = root /\ ledgerRoot = root
    /\ root = 0 \/ \E d \in DOMAIN blocks : d # root /\ root \in blocks[d].chain
    /\ LastVotedSlot(tower) \subseteq Live \cup tower.stray
    /\ pc \in {"replay", "push"}
    /\ tower.pushed \/ pc = "push" => Votable(blocks, tower)

(* What is saved, waiting or sent was a state of the tower; each follows   *)
(* the ones before it, and the tower follows them all.                     *)
OrderInv ==
    /\ stored \subseteq VoteStates /\ sent \subseteq VoteStates
    /\ queue \in Seq([vote : VoteStates, push : BOOLEAN])
    /\ \A x, y \in stored : x = y
    /\ sending \subseteq stored
    /\ sent # {} => stored # {}
    /\ \A x \in stored \cup sent : Votable(blocks, x)
    /\ \A u, w \in sent : Follows(blocks, u, w) \/ Follows(blocks, w, u)
    /\ \A u \in sent, x \in stored : Follows(blocks, u, x)
    /\ \A x \in stored : Follows(blocks, x, tower)
    /\ \A i \in 1 .. Len(queue) :
          /\ Votable(blocks, queue[i].vote)
          /\ \A x \in stored : Follows(blocks, x, queue[i].vote)
          /\ \A j \in i .. Len(queue) : Follows(blocks, queue[i].vote, queue[j].vote)
          /\ Follows(blocks, queue[i].vote, tower)

(* A refreshed vote repeats the one before it, which has been saved or     *)
(* will be: the last vote pushed is the tower's.                           *)
RefreshInv ==
    /\ \A i \in 1 .. Len(queue) : ~queue[i].push =>
          IF i = 1 THEN stored = {queue[i].vote}
                   ELSE queue[i].vote = queue[i - 1].vote
    /\ tower.pushed /\ pc = "replay" =>
          IF queue = <<>> THEN stored = {VoteStateOf(tower)}
                          ELSE queue[Len(queue)].vote = VoteStateOf(tower)

(* A bank's vote account holds nothing or a vote that was sent.            *)
AccountInv ==
    /\ \A b \in DOMAIN blocks : blocks[b].account \in sent \cup {EmptyVoteState}
    /\ uncomputed \subseteq DOMAIN blocks

Inv == TowerInv /\ OrderInv /\ RefreshInv /\ AccountInv

(* The invariant holds at the start.                                       *)
LEMMA InitInv ==
    ASSUME SetFacts, Init
    PROVE  Inv
<1>1. 0 \in Slots /\ DOMAIN blocks = {0} /\ blocks[0].chain = {0} /\ blocks[0].account = EmptyVoteState
  BY LockoutAssumption DEF Init, Slots
<1>2. Tree(blocks)
  BY <1>1 DEF Tree
<1>3. Small({})
  BY Empty, LockoutAssumption DEF Small, Distinct
<1>4. Stack(blocks, tower) /\ tower \in Towers
  BY Zenon, <1>1, <1>3 DEF Init, Stack, Towers
<1>5. LastVotedSlot(tower) = {}
  BY Zenon DEF Init, LastVotedSlot, SlotsOf
<1>6. TowerInv
  BY Zenon, <1>2, <1>4, <1>5 DEF Init, TowerInv
<1>7. queue \in Seq([vote : VoteStates, push : BOOLEAN]) /\ Len(queue) = 0
  BY DEF Init
<1>8. OrderInv /\ RefreshInv
  BY <1>7 DEF Init, OrderInv, RefreshInv
<1>. QED
  BY Zenon, <1>1, <1>6, <1>8 DEF Init, Inv, AccountInv

(* Follows and Votable look at the votes and the root only.                *)
LEMMA SameVotes ==
    ASSUME NEW B, NEW T, NEW U, T.votes = U.votes, T.root = U.root
    PROVE  /\ Stack(B, T) => Stack(B, U)
           /\ Votable(B, T) => Votable(B, U)
           /\ \A X : Follows(B, X, T) => Follows(B, X, U)
           /\ \A X : Follows(B, T, X) => Follows(B, U, X)
<1>1. Stack(B, T) => Stack(B, U)
  BY Zenon DEF Stack
<1>2. Votable(B, T) => Votable(B, U)
  BY Zenon, <1>1 DEF Votable
<1>3. ASSUME NEW X, Follows(B, X, T) PROVE Follows(B, X, U)
  BY Zenon, <1>3 DEF Follows, Upheld, Reaches
<1>4. ASSUME NEW X, Follows(B, T, X) PROVE Follows(B, U, X)
  BY Zenon, <1>4 DEF Follows, Reaches
<1>. QED
  BY Zenon, <1>1, <1>2, <1>3, <1>4

LEMMA StateOfTower ==
    ASSUME NEW T \in Towers
    PROVE  /\ VoteStateOf(T) \in VoteStates
           /\ VoteStateOf(T).votes = T.votes /\ VoteStateOf(T).root = T.root
BY Zenon DEF Towers, VoteStates, VoteStateOf

-----------------------------------------------------------------------------
(* Each action preserves the invariant                                     *)

(* A block of this or another validator is replayed.                       *)
LEMMA NewBankInv ==
    ASSUME Inv, NEW p \in Slots, NEW s \in Slots, NEW landed,
           landed = {} \/ \E u \in sent : landed = {u},
           NewBank(p, s, landed)
    PROVE  Inv'
<1>1. /\ p \in DOMAIN blocks /\ s > p /\ s \notin DOMAIN blocks
      /\ DOMAIN blocks' = DOMAIN blocks \cup {s}
      /\ \A b \in DOMAIN blocks : blocks'[b] = blocks[b]
      /\ blocks'[s].chain = blocks[p].chain \cup {s}
      /\ blocks'[s].account = IF landed = {} THEN blocks[p].account
                              ELSE CHOOSE u \in landed : TRUE
  BY Zenon DEF NewBank, Live, Descendants
<1>2. UNCHANGED <<ledgerRoot, stored, sent, root, tower, pc, queue, sending>>
  BY Zenon DEF NewBank
<1>3. Tree(blocks) /\ DOMAIN blocks \subseteq Slots /\ 0 \in DOMAIN blocks
  BY Zenon DEF Inv, TowerInv, Tree
<1>4. ASSUME NEW b \in DOMAIN blocks'
      PROVE  /\ blocks'[b].chain \subseteq DOMAIN blocks'
             /\ b \in blocks'[b].chain /\ 0 \in blocks'[b].chain
             /\ \A x \in blocks'[b].chain :
                   x <= b /\ blocks'[x].chain = {y \in blocks'[b].chain : y <= x}
  <2>1. CASE b \in DOMAIN blocks
    <3>1. blocks'[b] = blocks[b] /\ blocks[b].chain \subseteq DOMAIN blocks
      BY Zenon, <1>1, <1>3, <2>1 DEF Tree
    <3>2. \A x \in blocks[b].chain : blocks'[x] = blocks[x]
      BY Zenon, <1>1, <3>1
    <3>. QED
      BY <1>1, <1>3, <2>1, <3>1, <3>2 DEF Tree
  <2>2. CASE b = s
    <3>1. blocks[p].chain \subseteq DOMAIN blocks /\ 0 \in blocks[p].chain
      BY Zenon, <1>1, <1>3 DEF Tree
    <3>2. ASSUME NEW x \in blocks[p].chain
          PROVE  /\ x <= s
                 /\ blocks'[x].chain = {y \in blocks[p].chain \cup {s} : y <= x}
      <4>1. x <= p /\ x \in Nat /\ p \in Nat /\ s \in Nat /\ blocks'[x] = blocks[x]
        BY Zenon, <1>1, <1>3, <3>1, TreeFacts, VoteFacts
      <4>2. blocks[x].chain = {y \in blocks[p].chain : y <= x}
        BY Zenon, <1>1, <1>3 DEF Tree
      <4>3. ~(s <= x) /\ x <= s
        BY <1>1, <4>1
      <4>. QED
        BY Zenon, <4>1, <4>2, <4>3
    <3>3. s <= s /\ blocks'[s].chain = {y \in blocks[p].chain \cup {s} : y <= s}
      BY <1>1, <3>2, VoteFacts
    <3>. QED
      BY <1>1, <2>2, <3>1, <3>2, <3>3
  <2>. QED
    BY Zenon, <1>1, <2>1, <2>2
<1>5. Tree(blocks')
  BY Zenon, <1>1, <1>3, <1>4 DEF Tree
<1>6. /\ \A T : Stack(blocks, T) => Stack(blocks', T)
      /\ \A T : Votable(blocks, T) => Votable(blocks', T)
      /\ \A T1, T2 : Follows(blocks, T1, T2) /\ T2.root \in DOMAIN blocks
                        => Follows(blocks', T1, T2)
  BY Zenon, <1>1, <1>3, Grown
<1>7. \A T : Votable(blocks, T) => T.root \in DOMAIN blocks
  BY Zenon DEF Votable, Stack
<1>8. TowerInv'
  <2>1. Live \subseteq Live'
    BY Zenon, <1>1, <1>2 DEF Live, Descendants
  <2>2. LastVotedSlot(tower)' \subseteq Live' \cup tower'.stray
    BY Zenon, <1>2, <2>1 DEF Inv, TowerInv, LastVotedSlot, SlotsOf
  <2>3. (root = 0 \/ \E d \in DOMAIN blocks : d # root /\ root \in blocks[d].chain)'
    BY Zenon, <1>1, <1>2 DEF Inv, TowerInv
  <2>. QED
    BY Zenon, <1>2, <1>5, <1>6, <2>2, <2>3 DEF Inv, TowerInv
<1>9. OrderInv'
  <2>1. tower.root \in DOMAIN blocks
    BY Zenon DEF Inv, TowerInv, Stack
  <2>2. \A x \in stored \cup sent : x.root \in DOMAIN blocks
    BY Zenon, <1>7 DEF Inv, OrderInv
  <2>3. \A i \in 1 .. Len(queue) : queue[i].vote.root \in DOMAIN blocks
    BY Zenon, <1>7 DEF Inv, OrderInv
  <2>. QED
    BY <1>2, <1>6, <2>1, <2>2, <2>3 DEF Inv, OrderInv
<1>10. RefreshInv'
  BY Zenon, <1>2 DEF Inv, RefreshInv, VoteStateOf
<1>11. AccountInv'
  <2>1. blocks'[s].account \in sent \cup {EmptyVoteState}
    <3>1. CASE landed = {}
      BY Zenon, <1>1, <3>1 DEF Inv, AccountInv
    <3>2. CASE \E u \in sent : landed = {u}
      BY Zenon, <1>1, <3>2
    <3>. QED
      BY Zenon, <3>1, <3>2
  <2>. QED
    BY Zenon, <1>1, <1>2, <2>1 DEF Inv, AccountInv, NewBank
<1>. QED
  BY Zenon, <1>8, <1>9, <1>10, <1>11 DEF Inv

(* The tower follows every vote that was sent.                             *)
LEMMA SentFollowed ==
    ASSUME Inv, NEW u \in sent
    PROVE  Follows(blocks, u, tower) /\ Votable(blocks, u) /\ Stack(blocks, u)
<1>1. Votable(blocks, u) /\ Stack(blocks, u)
  BY Zenon DEF Inv, OrderInv, Votable
<1>2. PICK x \in stored : TRUE
  BY Zenon DEF Inv, OrderInv
<1>3. Stack(blocks, x) /\ Follows(blocks, u, x) /\ Follows(blocks, x, tower)
  BY Zenon DEF Inv, OrderInv, Votable
<1>4. Tree(blocks) /\ Stack(blocks, tower)
  BY Zenon DEF Inv, TowerInv
<1>. QED
  BY Zenon, <1>1, <1>3, <1>4, FollowsTransitive

(* No bank's vote account is ahead of the tower, but for votes at or below *)
(* its root: to adopt them changes nothing.                                *)
LEMMA ComputeBankStatsInv ==
    ASSUME Inv, NEW s \in Slots, ComputeBankStats(s)
    PROVE  Inv'
<1> DEFINE u == blocks[s].account
<1>0. s \in DOMAIN blocks
  BY Zenon DEF ComputeBankStats, Inv, AccountInv
<1>1. CASE \E a \in u.votes : \A v \in tower.votes : v.slot < a.slot
  <2>1. PICK a \in u.votes : \A v \in tower.votes : v.slot < a.slot
    BY Zenon, <1>1
  <2>2. u \in sent
    BY <1>0, <2>1 DEF Inv, AccountInv, EmptyVoteState
  <2>3. Follows(blocks, u, tower) /\ Votable(blocks, u) /\ Stack(blocks, u)
    BY Zenon, <2>2, SentFollowed
  <2>4. /\ u.votes \subseteq Votes /\ tower.votes \subseteq Votes
        /\ tower.root \in Nat /\ u.root \in Nat /\ tower \in Towers
    BY Zenon, <2>3, TreeFacts DEF Inv, TowerInv, Stack, Small
  <2>5. \A x \in u.votes : x.slot \in Nat /\ Reaches(tower, x.slot)
    <3> SUFFICES ASSUME NEW x \in u.votes
                 PROVE  x.slot \in Nat /\ Reaches(tower, x.slot)
      BY Zenon
    <3>1. x.slot \in Nat /\ Reaches(u, x.slot)
      BY <2>4, VoteFacts DEF Reaches
    <3>. QED
      BY Zenon, <2>3, <3>1 DEF Follows
  <2>6. tower.votes = {}
    <3> SUFFICES ASSUME tower.votes # {} PROVE FALSE
      BY Zenon
    <3>1. PICK v \in tower.votes : a.slot <= v.slot
      BY Zenon, <2>5 DEF Reaches
    <3>. QED
      BY <2>1, <2>4, <2>5, <3>1, VoteFacts
  <2>7. \A x \in u.votes : x.slot <= tower.root
    BY Zenon, <2>5, <2>6 DEF Reaches
  <2>8. u.root < tower.root
    BY <2>1, <2>3, <2>4, <2>5, <2>7 DEF Votable
  <2>9. {v \in u.votes : v.slot > tower.root} = {}
    BY <2>4, <2>5, <2>7
  <2>10. Adopted(u) = [tower EXCEPT !.votes = {}, !.root = tower.root]
    BY Zenon, <2>4, <2>8, <2>9 DEF Adopted
  <2>11. Adopted(u) = tower
    BY Zenon, <2>4, <2>6, <2>10 DEF Towers
  <2>. QED
    BY Zenon, <1>1, <2>11 DEF ComputeBankStats, Inv, TowerInv, OrderInv, RefreshInv,
       AccountInv, Live, Descendants, LastVotedSlot, SlotsOf
<1>2. CASE ~\E a \in u.votes : \A v \in tower.votes : v.slot < a.slot
  BY Zenon, <1>2 DEF ComputeBankStats, Inv, TowerInv, OrderInv, RefreshInv, AccountInv,
     Live, Descendants, LastVotedSlot, SlotsOf
<1>. QED
  BY Zenon, <1>1, <1>2

(* A vote for a leaf that is not locked out.                               *)
LEMMA LeafVoted ==
    ASSUME SetFacts, Inv, NEW s \in Leaves, ~IsLockedOut(s),
           NEW N, N = ProcessNextVoteSlot(tower, s)
    PROVE  /\ s \in DOMAIN blocks /\ s \in Nat
           /\ N \in Towers /\ Votable(blocks, N) /\ Stack(blocks, N)
           /\ Follows(blocks, tower, N)
           /\ N.root \in blocks[s].chain /\ N.root # s
           /\ \E v \in N.votes : v.slot = s
           /\ \A v \in N.votes : v.slot <= s
<1>1. /\ Tree(blocks) /\ tower \in Towers /\ Stack(blocks, tower)
      /\ tower.root = root /\ root \in Nat
      /\ \A v \in tower.votes : v \in Votes /\ v.slot \in Nat
  BY Zenon, TreeFacts, VoteFacts DEF Inv, TowerInv, Stack, Small
<1>2. s \in DOMAIN blocks /\ root \in blocks[s].chain /\ s \in Nat
  BY Zenon, <1>1, TreeFacts DEF Leaves, Live, Descendants
<1>3. /\ \A v \in tower.votes : v.slot < s
      /\ tower.votes = {} => s > tower.root
      /\ \A v \in N.votes : v.slot = s \/ v.slot \in blocks[s].chain
  BY Zenon DEF IsLockedOut, IsRecent, Ancestors
<1>4. tower.root # s
  <2> SUFFICES ASSUME root = s PROVE FALSE
    BY Zenon, <1>1
  <2>1. CASE root = 0
    BY <1>1, <1>3, <2>1
  <2>2. CASE \E d \in DOMAIN blocks : d # root /\ root \in blocks[d].chain
    BY Zenon, <2>2 DEF Leaves, Live, Descendants
  <2>. QED
    BY Zenon, <2>1, <2>2 DEF Inv, TowerInv
<1>5. /\ N \in Towers /\ Votable(blocks, N) /\ Follows(blocks, tower, N)
      /\ N.root \in blocks[s].chain /\ N.root # s
      /\ \E v \in N.votes : v.slot = s
      /\ \A v \in N.votes : v.slot <= s
  BY <1>1, <1>2, <1>3, <1>4, Voted
<1>. QED
  BY Zenon, <1>2, <1>5 DEF Votable

(* A vote is recorded, and the root moves with it.                         *)
LEMMA RecordBankVoteInv ==
    ASSUME SetFacts, Inv, NEW s \in Slots, RecordBankVote(s)
    PROVE  Inv'
<1>1. Tree(blocks) /\ Stack(blocks, tower) /\ tower.root = root /\ ledgerRoot = root
  BY Zenon DEF Inv, TowerInv
<1>2. s \in Leaves /\ ~IsLockedOut(s) /\ tower' = ProcessNextVoteSlot(tower, s)
  BY Zenon DEF RecordBankVote
<1>3. /\ s \in DOMAIN blocks /\ s \in Nat
      /\ tower' \in Towers /\ Votable(blocks, tower') /\ Stack(blocks, tower')
      /\ Follows(blocks, tower, tower')
      /\ tower'.root \in blocks[s].chain /\ tower'.root # s
      /\ \E v \in tower'.votes : v.slot = s
      /\ \A v \in tower'.votes : v.slot <= s
  BY Zenon, <1>2, LeafVoted
<1>4. /\ root' = tower'.root /\ ledgerRoot' = tower'.root /\ pc' = "push"
      /\ UNCHANGED <<blocks, stored, sent, uncomputed, queue, sending>>
  BY Zenon, <1>1 DEF RecordBankVote
<1>5. TowerInv'
  <2>1. s \in Live'
    BY Zenon, <1>3, <1>4 DEF Live, Descendants
  <2>2. LastVotedSlot(tower)' \subseteq {s}
    <3> SUFFICES ASSUME NEW t \in LastVotedSlot(tower')
                 PROVE  t = s
      BY Zenon DEF LastVotedSlot, SlotsOf
    <3>1. t \in SlotsOf(tower') /\ \A x \in SlotsOf(tower') : x <= t
      BY Zenon DEF LastVotedSlot
    <3>2. s \in SlotsOf(tower') /\ t <= s
      BY Zenon, <1>3, <3>1 DEF SlotsOf
    <3>3. t \in Nat
      BY Zenon, <1>3, <3>1, VoteFacts DEF SlotsOf, Towers
    <3>. QED
      BY <1>3, <3>1, <3>2, <3>3
  <2>. QED
    BY Zenon, <1>1, <1>3, <1>4, <2>1, <2>2 DEF TowerInv
<1>6. OrderInv'
  <2>1. \A x \in stored : Follows(blocks, x, tower')
    BY Zenon, <1>1, <1>3, FollowsTransitive DEF Inv, OrderInv, Votable
  <2>2. \A i \in 1 .. Len(queue) : Follows(blocks, queue[i].vote, tower')
    BY Zenon, <1>1, <1>3, FollowsTransitive DEF Inv, OrderInv, Votable
  <2>. QED
    BY Zenon, <1>4, <2>1, <2>2 DEF Inv, OrderInv
<1>7. RefreshInv' /\ AccountInv'
  BY Zenon, <1>4 DEF Inv, RefreshInv, AccountInv
<1>. QED
  BY Zenon, <1>5, <1>6, <1>7 DEF Inv

(* Positions of a queue that grows or shrinks by one.                      *)
LEMMA Upto ==
    \A n \in Nat : \A i \in 1 .. n : \A j \in i .. n + 1 : j \in i .. n \/ j = n + 1
OBVIOUS

LEMMA Shift ==
    \A n \in Nat : n >= 1 => \A i \in 1 .. n - 1 : \A j \in i .. n - 1 :
        j + 1 \in i + 1 .. n /\ j \in 1 .. n - 1
OBVIOUS

(* The tower's vote state is put at the end of the queue, by a push or a   *)
(* refresh.                                                                *)
LEMMA Queued ==
    ASSUME Inv, Votable(blocks, tower), NEW push \in BOOLEAN,
           queue' = Append(queue, [vote |-> VoteStateOf(tower), push |-> push]),
           push \/ (tower.pushed /\ pc = "replay"),
           tower' \in Towers, tower'.votes = tower.votes, tower'.root = tower.root,
           UNCHANGED <<blocks, stored, sent, sending>>
    PROVE  OrderInv' /\ RefreshInv'
<1> DEFINE n == Len(queue)
           state == VoteStateOf(tower)
<1>1. /\ n \in Nat /\ Len(queue') = n + 1
      /\ \A i \in 1 .. n : queue'[i] = queue[i]
      /\ queue'[n + 1].vote = state /\ queue'[n + 1].push = push
      /\ queue' # <<>>
      /\ queue = <<>> <=> n = 0
  BY DEF Inv, OrderInv
<1>2. Tree(blocks) /\ tower \in Towers /\ Stack(blocks, tower)
  BY Zenon DEF Inv, TowerInv
<1>3. /\ state \in VoteStates /\ Votable(blocks, state) /\ Stack(blocks, state)
      /\ VoteStateOf(tower') = state
      /\ \A X : Follows(blocks, X, tower) => Follows(blocks, X, state) /\ Follows(blocks, X, tower')
      /\ Follows(blocks, state, state) /\ Follows(blocks, state, tower')
  <2>1. state \in VoteStates /\ state.votes = tower.votes /\ state.root = tower.root
    BY Zenon, <1>2, StateOfTower
  <2>2. /\ Stack(blocks, state) /\ Votable(blocks, state)
        /\ \A X : Follows(blocks, X, tower) => Follows(blocks, X, state)
    BY Zenon, <1>2, <2>1, SameVotes
  <2>3. \A X : Follows(blocks, X, tower) => Follows(blocks, X, tower')
    BY Zenon, SameVotes
  <2>4. Follows(blocks, state, state)
    BY Zenon, <1>2, <2>2, FollowsItself
  <2>5. Follows(blocks, state, tower')
    BY Zenon, <2>1, <2>4, SameVotes
  <2>6. VoteStateOf(tower') = state
    BY Zenon DEF VoteStateOf
  <2> HIDE DEF state
  <2>. QED
    BY Zenon, <2>1, <2>2, <2>3, <2>4, <2>5, <2>6
<1> HIDE DEF state
<1>4. OrderInv'
  <2>1. queue' \in Seq([vote : VoteStates, push : BOOLEAN])
    BY <1>3 DEF Inv, OrderInv, state
  <2>2. ASSUME NEW i \in 1 .. n + 1
        PROVE  /\ Votable(blocks, queue'[i].vote)
               /\ \A x \in stored : Follows(blocks, x, queue'[i].vote)
               /\ \A j \in i .. n + 1 : Follows(blocks, queue'[i].vote, queue'[j].vote)
               /\ Follows(blocks, queue'[i].vote, tower')
    <3>1. CASE i \in 1 .. n
      <4>1. /\ queue'[i] = queue[i] /\ Votable(blocks, queue[i].vote)
            /\ \A x \in stored : Follows(blocks, x, queue[i].vote)
            /\ \A j \in i .. n : Follows(blocks, queue[i].vote, queue[j].vote)
            /\ Follows(blocks, queue[i].vote, tower)
        BY Zenon, <1>1, <3>1 DEF Inv, OrderInv
      <4>2. \A j \in i .. n : queue'[j] = queue[j]
        BY <1>1, <3>1
      <4>3. Follows(blocks, queue[i].vote, state) /\ Follows(blocks, queue[i].vote, tower')
        BY Zenon, <1>3, <4>1
      <4>4. \A j \in i .. n + 1 : j \in i .. n \/ j = n + 1
        BY <1>1, <3>1, Upto, Zenon
      <4>. QED
        BY Zenon, <1>1, <4>1, <4>2, <4>3, <4>4
    <3>2. CASE i = n + 1
      <4>1. \A x \in stored : Follows(blocks, x, state)
        BY Zenon, <1>3 DEF Inv, OrderInv
      <4>2. \A j \in i .. n + 1 : j = n + 1
        BY <1>1, <3>2
      <4>. QED
        BY Zenon, <1>1, <1>3, <3>2, <4>1, <4>2
    <3>. QED
      BY <1>1, <3>1, <3>2
  <2>3. \A x \in stored : Follows(blocks, x, tower')
    BY Zenon, <1>3 DEF Inv, OrderInv
  <2>. QED
    BY Zenon, <1>1, <2>1, <2>2, <2>3 DEF Inv, OrderInv
<1>5. RefreshInv'
  <2>1. queue'[Len(queue')].vote = VoteStateOf(tower')
    BY Zenon, <1>1, <1>3
  <2>2. ASSUME NEW i \in 1 .. n + 1, ~queue'[i].push
        PROVE  IF i = 1 THEN stored = {queue'[i].vote}
                        ELSE queue'[i].vote = queue'[i - 1].vote
    <3>1. CASE i \in 1 .. n
      <4>1. queue'[i] = queue[i] /\ ~queue[i].push
        BY Zenon, <1>1, <2>2, <3>1
      <4>2. i = 1 \/ (i - 1 \in 1 .. n /\ queue'[i - 1] = queue[i - 1])
        BY <1>1, <3>1
      <4>3. IF i = 1 THEN stored = {queue[i].vote} ELSE queue[i].vote = queue[i - 1].vote
        BY Zenon, <3>1, <4>1 DEF Inv, RefreshInv
      <4>. QED
        BY Zenon, <4>1, <4>2, <4>3
    <3>2. CASE i = n + 1
      <4>1. tower.pushed /\ pc = "replay"
        BY Zenon, <1>1, <2>2, <3>2
      <4>. QED
        BY <1>1, <3>2, <4>1 DEF Inv, RefreshInv, state
    <3>. QED
      BY <1>1, <3>1, <3>2
  <2>. QED
    BY Zenon, <1>1, <2>1, <2>2 DEF RefreshInv
<1>. QED
  BY Zenon, <1>4, <1>5

(* push_vote.                                                              *)
LEMMA PushVoteInv ==
    ASSUME Inv, PushVote
    PROVE  Inv'
<1>1. /\ Votable(blocks, tower) /\ tower \in Towers
  BY Zenon DEF PushVote, Inv, TowerInv
<1>2. /\ tower' \in Towers /\ tower'.votes = tower.votes /\ tower'.root = tower.root
      /\ tower'.stray = tower.stray
  BY Zenon, <1>1 DEF PushVote, Towers
<1>3. /\ UNCHANGED <<blocks, ledgerRoot, stored, sent, root, uncomputed, sending>>
      /\ queue' = Append(queue, [vote |-> VoteStateOf(tower), push |-> TRUE])
      /\ pc' = "replay"
  BY Zenon DEF PushVote
<1>4. OrderInv' /\ RefreshInv'
  BY Zenon, <1>1, <1>2, <1>3, Queued
<1>5. Stack(blocks, tower') /\ Votable(blocks, tower')
  BY Zenon, <1>1, <1>2, SameVotes DEF Inv, TowerInv
<1>6. LastVotedSlot(tower)' = LastVotedSlot(tower) /\ Live' = Live
  BY Zenon, <1>2, <1>3 DEF LastVotedSlot, SlotsOf, Live, Descendants
<1>7. TowerInv'
  BY Zenon, <1>2, <1>3, <1>5, <1>6 DEF Inv, TowerInv
<1>8. AccountInv'
  BY Zenon, <1>3 DEF Inv, AccountInv
<1>. QED
  BY Zenon, <1>4, <1>7, <1>8 DEF Inv

(* No transaction is made for the vote.                                    *)
LEMMA NoVoteTxInv ==
    ASSUME Inv, NoVoteTx
    PROVE  Inv'
<1>1. /\ UNCHANGED <<blocks, ledgerRoot, stored, sent, root, uncomputed, tower, queue, sending>>
      /\ pc' = "replay" /\ pc = "push" /\ ~tower.pushed
  BY Zenon DEF NoVoteTx
<1>2. TowerInv'
  BY Zenon, <1>1 DEF Inv, TowerInv, LastVotedSlot, SlotsOf, Live, Descendants
<1>3. OrderInv' /\ RefreshInv' /\ AccountInv'
  BY Zenon, <1>1 DEF Inv, OrderInv, RefreshInv, AccountInv
<1>. QED
  BY Zenon, <1>2, <1>3 DEF Inv

(* refresh_last_vote.                                                      *)
LEMMA RefreshLastVoteInv ==
    ASSUME Inv, NEW bank \in Slots, RefreshLastVote(bank)
    PROVE  Inv'
<1>1. Votable(blocks, tower) /\ tower \in Towers
  BY Zenon DEF RefreshLastVote, Inv, TowerInv
<1>2. /\ UNCHANGED <<blocks, ledgerRoot, stored, sent, root, uncomputed, tower, pc, sending>>
      /\ queue' = Append(queue, [vote |-> VoteStateOf(tower), push |-> FALSE])
      /\ pc = "replay" /\ tower.pushed
  BY Zenon DEF RefreshLastVote
<1>3. OrderInv' /\ RefreshInv'
  BY Zenon, <1>1, <1>2, Queued
<1>4. TowerInv'
  BY Zenon, <1>2 DEF Inv, TowerInv, LastVotedSlot, SlotsOf, Live, Descendants
<1>5. AccountInv'
  BY Zenon, <1>2 DEF Inv, AccountInv
<1>. QED
  BY Zenon, <1>3, <1>4, <1>5 DEF Inv

(* Only the empty sequence has no elements.                                *)
LEMMA LengthZero ==
    ASSUME NEW X, NEW s \in Seq(X), Len(s) = 0
    PROVE  s = <<>>
OBVIOUS

(* The rest of a queue.                                                    *)
LEMMA TailFacts ==
    ASSUME NEW X, NEW q \in Seq(X), q # <<>>
    PROVE  /\ Len(q) \in Nat /\ Len(q) >= 1 /\ Len(Tail(q)) = Len(q) - 1
           /\ \A i \in 1 .. Len(q) - 1 : i + 1 \in 1 .. Len(q) /\ Tail(q)[i] = q[i + 1]
           /\ Head(q) = q[1] /\ q[1] \in X
           /\ Tail(q) \in Seq(X)
           /\ Tail(q) = <<>> <=> Len(q) = 1
<1>1. Len(q) \in Nat /\ Len(q) >= 1
  OBVIOUS
<1>2. Head(q) = q[1] /\ q[1] \in X
  BY <1>1
<1>3. Tail(q) \in Seq(X) /\ Len(Tail(q)) = Len(q) - 1
  BY <1>1
<1>4. \A i \in 1 .. Len(q) - 1 : i + 1 \in 1 .. Len(q) /\ Tail(q)[i] = q[i + 1]
  BY <1>1
<1>5. Tail(q) = <<>> => Len(q) = 1
  BY <1>1, <1>3
<1>6. ASSUME Len(q) = 1
      PROVE  Tail(q) = <<>>
  <2>1. Len(Tail(q)) = 0
    BY <1>3, <1>6
  <2>. QED
    BY Zenon, <1>3, <2>1, LengthZero
<1>. QED
  BY Zenon, <1>1, <1>2, <1>3, <1>4, <1>5, <1>6

(* The voting service saves the first vote of the queue: after it, the     *)
(* saved tower is that vote, a refreshed one included.                     *)
LEMMA SaveTowerInv ==
    ASSUME Inv, SaveTower
    PROVE  Inv'
<1> DEFINE n == Len(queue)
<1>1. /\ n \in Nat /\ n >= 1 /\ Len(queue') = n - 1
      /\ \A i \in 1 .. n - 1 : i + 1 \in 1 .. n /\ queue'[i] = queue[i + 1]
      /\ Head(queue) = queue[1]
      /\ queue' \in Seq([vote : VoteStates, push : BOOLEAN])
      /\ queue[1] \in [vote : VoteStates, push : BOOLEAN]
      /\ queue' = <<>> <=> n = 1
  <2>1. /\ queue \in Seq([vote : VoteStates, push : BOOLEAN])
        /\ queue # <<>> /\ queue' = Tail(queue)
    BY Zenon DEF Inv, OrderInv, SaveTower
  <2>. QED
    BY Zenon, <2>1, TailFacts
<1>2. UNCHANGED <<blocks, ledgerRoot, sent, root, uncomputed, tower, pc>>
  BY Zenon DEF SaveTower
<1>3. stored' = {queue[1].vote} /\ sending' = {queue[1].vote}
  <2>1. CASE queue[1].push
    BY Zenon, <1>1, <2>1 DEF SaveTower
  <2>2. CASE ~queue[1].push
    <3>1. stored = {queue[1].vote}
      BY <1>1, <2>2 DEF Inv, RefreshInv
    <3>. QED
      BY Zenon, <1>1, <2>2, <3>1 DEF SaveTower
  <2>. QED
    BY Zenon, <2>1, <2>2
<1>4. /\ Votable(blocks, queue[1].vote) /\ queue[1].vote \in VoteStates
      /\ Follows(blocks, queue[1].vote, tower)
      /\ \A j \in 1 .. n : Follows(blocks, queue[1].vote, queue[j].vote)
      /\ \A x \in stored : Follows(blocks, x, queue[1].vote)
  <2>1. 1 \in 1 .. Len(queue) /\ queue[1].vote \in VoteStates
    BY <1>1
  <2>. QED
    BY <2>1, Zenon DEF Inv, OrderInv
<1>5. ASSUME NEW u \in sent
      PROVE  Follows(blocks, u, queue[1].vote)
  <2>1. PICK x \in stored : TRUE
    BY Zenon DEF Inv, OrderInv
  <2>2. Follows(blocks, u, x) /\ Stack(blocks, x) /\ Stack(blocks, u) /\ Stack(blocks, queue[1].vote)
    BY Zenon, <1>4 DEF Inv, OrderInv, Votable
  <2>. QED
    BY Zenon, <1>4, <2>1, <2>2, FollowsTransitive DEF Inv, TowerInv
<1>6. ASSUME NEW i \in 1 .. n - 1
      PROVE  /\ Votable(blocks, queue'[i].vote)
             /\ \A x \in stored' : Follows(blocks, x, queue'[i].vote)
             /\ \A j \in i .. n - 1 : Follows(blocks, queue'[i].vote, queue'[j].vote)
             /\ Follows(blocks, queue'[i].vote, tower)
  <2>1. i + 1 \in 1 .. n /\ queue'[i] = queue[i + 1]
    BY Zenon, <1>1
  <2>2. /\ Votable(blocks, queue[i + 1].vote) /\ Follows(blocks, queue[i + 1].vote, tower)
        /\ \A j \in i + 1 .. n : Follows(blocks, queue[i + 1].vote, queue[j].vote)
    BY Zenon, <1>1, <2>1 DEF Inv, OrderInv
  <2>3. \A j \in i .. n - 1 : j + 1 \in i + 1 .. n /\ queue'[j] = queue[j + 1]
    BY <1>1, Shift, Zenon
  <2>. QED
    BY Zenon, <1>3, <1>4, <2>1, <2>2, <2>3
<1>7. OrderInv'
  BY Zenon, <1>1, <1>2, <1>3, <1>4, <1>5, <1>6 DEF Inv, OrderInv
<1>8. RefreshInv'
  <2>1. ASSUME NEW i \in 1 .. n - 1, ~queue'[i].push
        PROVE  IF i = 1 THEN stored' = {queue'[i].vote}
                        ELSE queue'[i].vote = queue'[i - 1].vote
    <3>1. i + 1 \in 1 .. n /\ queue'[i] = queue[i + 1] /\ i + 1 # 1 /\ (i + 1) - 1 = i
      BY <1>1
    <3>2. queue[i + 1].vote = queue[i].vote
      BY Zenon, <2>1, <3>1 DEF Inv, RefreshInv
    <3>3. i # 1 => i - 1 \in 1 .. n - 1 /\ queue'[i - 1] = queue[i]
      <4> SUFFICES ASSUME i # 1 PROVE i - 1 \in 1 .. n - 1 /\ queue'[i - 1] = queue[i]
        BY Zenon
      <4>1. i - 1 \in 1 .. n - 1 /\ (i - 1) + 1 = i
        BY <1>1
      <4>. QED
        BY Zenon, <1>1, <4>1
    <3>. QED
      BY Zenon, <1>3, <3>1, <3>2, <3>3
  <2>2. ASSUME tower.pushed, pc = "replay"
        PROVE  IF queue' = <<>> THEN stored' = {VoteStateOf(tower)}
                                ELSE queue'[Len(queue')].vote = VoteStateOf(tower)
    <3>1. queue[n].vote = VoteStateOf(tower)
      BY Zenon, <1>1, <2>2 DEF Inv, RefreshInv, SaveTower
    <3>2. n # 1 => n - 1 \in 1 .. n - 1 /\ (n - 1) + 1 = n
      BY <1>1
    <3>3. n # 1 => queue'[n - 1] = queue[n]
      BY Zenon, <1>1, <3>2
    <3>. QED
      BY Zenon, <1>1, <1>3, <3>1, <3>3
  <2>. QED
    BY Zenon, <1>1, <1>2, <2>1, <2>2 DEF RefreshInv, VoteStateOf
<1>9. TowerInv' /\ AccountInv'
  BY Zenon, <1>2 DEF Inv, TowerInv, AccountInv, LastVotedSlot, SlotsOf, Live, Descendants
<1>. QED
  BY Zenon, <1>7, <1>8, <1>9 DEF Inv

(* The saved vote is sent.                                                 *)
LEMMA SendVoteInv ==
    ASSUME Inv, SendVote
    PROVE  Inv'
<1>1. /\ UNCHANGED <<blocks, ledgerRoot, stored, root, uncomputed, tower, pc, queue>>
      /\ sent' = sent \cup sending /\ sending' = {} /\ sending \subseteq stored
  BY Zenon DEF SendVote, Inv, OrderInv
<1>2. /\ Tree(blocks)
      /\ \A x, y \in stored : x = y
      /\ \A x \in stored : Follows(blocks, x, x)
  BY Zenon, FollowsItself DEF Inv, TowerInv, OrderInv, Votable
<1>3. OrderInv'
  <2>1. \A u, w \in sent' : Follows(blocks, u, w) \/ Follows(blocks, w, u)
    BY Zenon, <1>1, <1>2 DEF Inv, OrderInv
  <2>2. \A u \in sent', x \in stored : Follows(blocks, u, x)
    BY Zenon, <1>1, <1>2 DEF Inv, OrderInv
  <2>3. /\ sent' \subseteq VoteStates /\ (sent' # {} => stored # {})
        /\ \A x \in stored \cup sent' : Votable(blocks, x)
    BY Zenon, <1>1 DEF Inv, OrderInv
  <2>. QED
    BY Zenon, <1>1, <2>1, <2>2, <2>3 DEF Inv, OrderInv
<1>4. TowerInv' /\ RefreshInv' /\ AccountInv'
  BY Zenon, <1>1 DEF Inv, TowerInv, RefreshInv, AccountInv, LastVotedSlot, SlotsOf, Live,
     Descendants
<1>. QED
  BY Zenon, <1>3, <1>4 DEF Inv

(* The process dies and starts again: with nothing saved nothing was sent, *)
(* and a saved tower is restored.                                          *)
LEMMA RestartInv ==
    ASSUME SetFacts, Inv, NEW r \in Slots, NEW heaviest \in Slots, Restart(r, heaviest)
    PROVE  Inv'
<1>1. /\ Tree(blocks) /\ r \in DOMAIN blocks /\ root \in blocks[r].chain
      /\ heaviest \in DOMAIN blocks /\ r \in blocks[heaviest].chain
      /\ r # root => Descendants(r) # {r}
  BY Zenon DEF Inv, TowerInv, Restart, Descendants
<1>2. /\ root' = r /\ ledgerRoot' = r /\ uncomputed' = Descendants(r) /\ pc' = "replay"
      /\ queue' = <<>> /\ sending' = {} /\ UNCHANGED <<blocks, stored, sent>>
  BY Zenon DEF Restart
<1>3. root' = 0 \/ \E d \in DOMAIN blocks : d # r /\ r \in blocks[d].chain
  <2>1. CASE r = root
    BY Zenon, <1>2, <2>1 DEF Inv, TowerInv
  <2>2. CASE r # root
    <3>1. r \in Descendants(r)
      BY Zenon, <1>1 DEF Descendants, Tree
    <3>. QED
      BY Zenon, <1>1, <2>2, <3>1 DEF Descendants
  <2>. QED
    BY Zenon, <2>1, <2>2
<1>4. /\ tower' \in Towers /\ tower'.root = r /\ tower'.pushed = FALSE
      /\ Stack(blocks, tower')
      /\ LastVotedSlot(tower') \subseteq tower'.stray
      /\ \A x \in stored : Follows(blocks, x, tower')
  <2>1. CASE stored = {}
    <3>1. sent = {}
      BY Zenon, <2>1 DEF Inv, OrderInv
    <3>2. blocks[heaviest].account = EmptyVoteState
      BY Zenon, <1>1, <3>1 DEF Inv, AccountInv
    <3>3. tower' = [votes |-> {}, root |-> r, stray |-> {}, pushed |-> FALSE]
      <4>1. tower' = InitializeLockoutsFromBank(heaviest, r)
        BY Zenon, <2>1 DEF Restart
      <4>2. {v \in blocks[heaviest].account.votes : v.slot > r} = {}
        BY <3>2 DEF EmptyVoteState
      <4>. QED
        BY Zenon, <4>1, <4>2 DEF InitializeLockoutsFromBank
    <3>4. Small({})
      BY Empty, LockoutAssumption DEF Small, Distinct
    <3>5. LastVotedSlot(tower') = {}
      BY Zenon, <3>3 DEF LastVotedSlot, SlotsOf
    <3>. QED
      BY Zenon, <1>1, <2>1, <3>3, <3>4, <3>5 DEF Towers, Stack
  <2>2. CASE stored # {}
    <3>1. PICK saved \in stored : stored = {saved}
      BY Zenon, <2>2 DEF Inv, OrderInv
    <3>2. /\ saved \in VoteStates /\ Votable(blocks, saved)
          /\ Follows(blocks, saved, tower)
      BY Zenon DEF Inv, OrderInv
    <3>3. saved.root \in blocks[r].chain
      BY Zenon, <1>1, <3>2, TreeFacts DEF Follows, Inv, TowerInv
    <3>4. Restorable(saved, r)
      BY Zenon, <1>1, <3>2, <3>3, Restored
    <3>5. tower' = AdjustLockoutsAfterReplay(saved, r)
      BY Zenon, <3>1, <3>4 DEF Restart
    <3>6. /\ tower' \in Towers /\ tower'.root = r /\ tower'.pushed = FALSE
          /\ LastVotedSlot(tower') \subseteq tower'.stray
          /\ Stack(blocks, tower')
          /\ Follows(blocks, saved, tower')
      BY Zenon, <1>1, <3>2, <3>3, <3>5, Restored
    <3>. QED
      BY Zenon, <3>1, <3>6
  <2>. QED
    BY Zenon, <2>1, <2>2
<1>5. TowerInv'
  <2>1. LastVotedSlot(tower)' \subseteq tower'.stray
    BY Zenon, <1>4 DEF LastVotedSlot, SlotsOf
  <2>. QED
    BY Zenon, <1>1, <1>2, <1>3, <1>4, <2>1 DEF TowerInv
<1>6. OrderInv'
  <2>1. queue' \in Seq([vote : VoteStates, push : BOOLEAN]) /\ 1 .. Len(queue') = {}
    BY <1>2
  <2>2. stored' = stored /\ sent' = sent /\ blocks' = blocks /\ sending' = {}
    BY Zenon, <1>2
  <2>3. /\ stored \subseteq VoteStates /\ sent \subseteq VoteStates
        /\ \A x, y \in stored : x = y
        /\ sent # {} => stored # {}
        /\ \A x \in stored \cup sent : Votable(blocks, x)
        /\ \A u, w \in sent : Follows(blocks, u, w) \/ Follows(blocks, w, u)
        /\ \A u \in sent, x \in stored : Follows(blocks, u, x)
    BY Zenon DEF Inv, OrderInv
  <2>. QED
    BY Zenon, <1>4, <2>1, <2>2, <2>3 DEF OrderInv
<1>7. RefreshInv'
  <2>1. Len(queue') = 0
    BY Zenon, <1>2
  <2>. QED
    BY <1>4, <2>1 DEF RefreshInv
<1>8. AccountInv'
  BY Zenon, <1>2 DEF Inv, AccountInv, Descendants
<1>. QED
  BY Zenon, <1>5, <1>6, <1>7, <1>8 DEF Inv

(* Every step keeps the invariant.                                         *)
LEMMA NextInv ==
    ASSUME SetFacts, Inv, [Next]_vars
    PROVE  Inv'
<1>1. CASE \E p, s \in Slots : NewBank(p, s, {})
  BY Zenon, <1>1, NewBankInv
<1>2. CASE \E p, s \in Slots, u \in sent : NewBank(p, s, {u})
  <2>1. PICK p \in Slots, s \in Slots, u \in sent : NewBank(p, s, {u})
    BY Zenon, <1>2
  <2>2. {u} = {} \/ \E w \in sent : {u} = {w}
    BY Zenon
  <2>. QED
    BY Zenon, <2>1, <2>2, NewBankInv
<1>3. CASE \E s \in Slots : ComputeBankStats(s)
  BY Zenon, <1>3, ComputeBankStatsInv
<1>4. CASE \E s \in Slots : RecordBankVote(s)
  BY Zenon, <1>4, RecordBankVoteInv
<1>5. CASE PushVote
  BY Zenon, <1>5, PushVoteInv
<1>6. CASE NoVoteTx
  BY Zenon, <1>6, NoVoteTxInv
<1>7. CASE \E bank \in Slots : RefreshLastVote(bank)
  BY Zenon, <1>7, RefreshLastVoteInv
<1>8. CASE SaveTower
  BY Zenon, <1>8, SaveTowerInv
<1>9. CASE SendVote
  BY Zenon, <1>9, SendVoteInv
<1>10. CASE \E r, heaviest \in Slots : Restart(r, heaviest)
  BY Zenon, <1>10, RestartInv
<1>11. CASE UNCHANGED vars
  BY Zenon, <1>11 DEF vars, Inv, TowerInv, OrderInv, RefreshInv, AccountInv, VoteStateOf,
     LastVotedSlot, SlotsOf, Live, Descendants
<1>. QED
  BY Zenon, <1>1, <1>2, <1>3, <1>4, <1>5, <1>6, <1>7, <1>8, <1>9, <1>10, <1>11 DEF Next

-----------------------------------------------------------------------------
(* The properties of Tower                                                 *)

(* last_voted_slot is the slot of a vote, and all votes lie on its chain.  *)
LEMMA LastVote ==
    ASSUME NEW B, Tree(B), NEW T, Votable(B, T), NEW t \in LastVotedSlot(T)
    PROVE  /\ \E v \in T.votes : v.slot = t
           /\ t \in DOMAIN B /\ t \in Nat
           /\ \A v \in T.votes : v.slot <= t /\ v.slot \in B[t].chain
           /\ T.root \in B[t].chain
<1>1. PICK x \in T.votes : x.slot = t
  BY Zenon DEF LastVotedSlot, SlotsOf
<1>2. \A v \in T.votes : v.slot <= t
  BY Zenon DEF LastVotedSlot, SlotsOf
<1>. QED
  BY Zenon, <1>1, <1>2, TreeFacts DEF Votable, Stack

(* A vote state has a last vote.                                           *)
LEMMA LastVoteExists ==
    ASSUME SetFacts, NEW T, T.votes \subseteq Votes, T.votes # {}
    PROVE  LastVotedSlot(T) # {}
<1> DEFINE S == {MaxSlot - s : s \in SlotsOf(T)}
<1>1. SlotsOf(T) \subseteq Slots /\ SlotsOf(T) # {}
  BY Zenon, VoteFacts DEF SlotsOf
<1>2. \A s \in SlotsOf(T) : s \in Nat /\ MaxSlot - s \in Nat
  BY <1>1, LockoutAssumption DEF Slots
<1>3. S \subseteq Nat /\ S # {}
  BY Zenon, <1>1, <1>2
<1>4. PICK m \in S : \A y \in S : m <= y
  BY Zenon, <1>3, Smallest
<1>5. PICK t \in SlotsOf(T) : m = MaxSlot - t
  BY Zenon, <1>4
<1>6. \A s \in SlotsOf(T) : s <= t
  <2> SUFFICES ASSUME NEW s \in SlotsOf(T) PROVE s <= t
    BY Zenon
  <2>1. m <= MaxSlot - s
    BY Zenon, <1>4
  <2>. QED
    BY <1>2, <1>5, <2>1, LockoutAssumption
<1>. QED
  BY Zenon, <1>5, <1>6 DEF LastVotedSlot

LEMMA AreHonoured ==
    ASSUME Inv
    PROVE  LockoutsHonoured
<1> SUFFICES ASSUME Inv, NEW u \in sent, NEW w \in sent, NEW v \in u.votes,
                    NEW t \in LastVotedSlot(w),
                    v.slot < t, t <= v.slot + Lockout[v.conf]
             PROVE  v.slot \in blocks[t].chain
  BY Zenon DEF LockoutsHonoured
<1>1. /\ Tree(blocks) /\ Votable(blocks, u) /\ Votable(blocks, w)
      /\ Follows(blocks, u, w) \/ Follows(blocks, w, u)
  BY Zenon DEF Inv, TowerInv, OrderInv
<1>2. /\ \E x \in w.votes : x.slot = t
      /\ t \in DOMAIN blocks /\ t \in Nat
      /\ \A x \in w.votes : x.slot <= t /\ x.slot \in blocks[t].chain
      /\ w.root \in blocks[t].chain
  BY Zenon, <1>1, LastVote
<1>3. /\ v.slot \in Nat /\ Lockout[v.conf] \in Nat
      /\ \A x \in w.votes : x.slot \in Nat
  BY Zenon, <1>1, VoteFacts DEF Votable, Stack, Small
<1>4. CASE Follows(blocks, u, w)
  <2>1. Upheld(blocks, v, w)
    BY Zenon, <1>4 DEF Follows
  <2>2. ~Reaches(w, v.slot + Lockout[v.conf] + 1)
    BY <1>2, <1>3 DEF Reaches
  <2>3. CASE v.slot \in blocks[w.root].chain
    BY Zenon, <1>1, <1>2, <2>3, TreeFacts
  <2>. QED
    BY Zenon, <1>2, <2>1, <2>2, <2>3 DEF Upheld
<1>5. CASE Follows(blocks, w, u)
  <2>1. Reaches(w, v.slot)
    BY <1>2, <1>3 DEF Reaches
  <2>. QED
    BY Zenon, <1>2, <1>5, <2>1 DEF Follows
<1>. QED
  BY Zenon, <1>1, <1>4, <1>5

LEMMA AreRestored ==
    ASSUME SetFacts, Inv
    PROVE  TowerRestores
<1> SUFFICES ASSUME Inv, NEW saved \in stored
             PROVE  /\ saved.root <= ledgerRoot
                    /\ \A r \in Descendants(ledgerRoot) : Restorable(saved, r)
  BY Zenon DEF TowerRestores
<1>1. /\ Tree(blocks) /\ saved \in VoteStates /\ Votable(blocks, saved)
      /\ ledgerRoot \in DOMAIN blocks /\ saved.root \in blocks[ledgerRoot].chain
  BY Zenon DEF Inv, TowerInv, OrderInv, Follows, Stack
<1>2. \A r \in Descendants(ledgerRoot) : r \in DOMAIN blocks /\ saved.root \in blocks[r].chain
  BY Zenon, <1>1, TreeFacts DEF Descendants
<1>3. \A r \in Descendants(ledgerRoot) : Restorable(saved, r)
  BY Zenon, <1>1, <1>2, Restored
<1>. QED
  BY Zenon, <1>1, <1>3, TreeFacts

LEMMA NeverPanics ==
    ASSUME SetFacts, Inv
    PROVE  ReplayNeverPanics
<1> SUFFICES ASSUME Inv
             PROVE  /\ \A s \in Leaves : ~IsLockedOut(s) =>
                          LET voted == ProcessNextVoteSlot(tower, s)
                          IN  /\ voted.root \in Ancestors(s) \cup {s}
                              /\ voted.root # tower.root => voted.root \in Live
                    /\ LastVotedSlot(tower) \subseteq Live \cup tower.stray
  BY Zenon DEF ReplayNeverPanics
<1>1. ASSUME NEW s \in Leaves, ~IsLockedOut(s), NEW voted, voted = ProcessNextVoteSlot(tower, s)
      PROVE  voted.root \in Ancestors(s) \cup {s} /\ voted.root \in Live
  <2>1. Tree(blocks) /\ tower.root = root
    BY Zenon DEF Inv, TowerInv
  <2>2. /\ s \in DOMAIN blocks /\ Follows(blocks, tower, voted)
        /\ voted.root \in blocks[s].chain /\ voted.root # s
    BY Zenon, <1>1, LeafVoted
  <2>3. root \in blocks[voted.root].chain /\ voted.root \in DOMAIN blocks /\ voted.root >= root
    BY Zenon, <2>1, <2>2, TreeFacts DEF Follows
  <2>. QED
    BY Zenon, <2>2, <2>3 DEF Ancestors, Live, Descendants
<1>. QED
  BY Zenon, <1>1 DEF Inv, TowerInv

LEMMA AreAccepted ==
    ASSUME SetFacts, Inv
    PROVE  VotesAreAccepted
<1> SUFFICES ASSUME Inv, NEW u \in sent, NEW b \in DOMAIN blocks,
                    LastVotedSlot(u) \subseteq blocks[b].chain,
                    \A a \in blocks[b].account.votes : \A t \in LastVotedSlot(u) : a.slot < t
             PROVE  Accepted(blocks[b].account, u, blocks[b].chain)
  BY Zenon DEF VotesAreAccepted
<1> DEFINE account == blocks[b].account
<1>1. /\ Tree(blocks) /\ Votable(blocks, u) /\ Stack(blocks, u) /\ Small(u.votes)
      /\ u.votes \subseteq Votes /\ u.votes # {}
  BY Zenon DEF Inv, TowerInv, OrderInv, Votable, Stack, Small
<1>2. PICK t \in LastVotedSlot(u) : TRUE
  BY Zenon, <1>1, LastVoteExists
<1>3. /\ \E v \in u.votes : v.slot = t
      /\ t \in DOMAIN blocks /\ t \in Nat
      /\ \A v \in u.votes : v.slot <= t /\ v.slot \in blocks[t].chain
      /\ u.root \in blocks[t].chain
  BY Zenon, <1>1, LastVote
<1>4. SlotsAreValid(account, u, blocks[b].chain)
  <2>1. SlotsOf(u) \cup {u.root} \subseteq blocks[b].chain
    <3>1. t \in blocks[b].chain
      BY Zenon, <1>2
    <3>2. blocks[t].chain \subseteq blocks[b].chain
      BY Zenon, <1>1, <3>1, TreeFacts
    <3>. QED
      BY Zenon, <1>3, <3>2 DEF SlotsOf
  <2>2. \E v \in u.votes : \A w \in account.votes : w.slot < v.slot
    BY Zenon, <1>3
  <2>. QED
    BY Zenon, <1>1, <2>1, <2>2 DEF SlotsAreValid
<1>5. WellOrdered(u)
  <2>1. \A v \in u.votes : v.slot > u.root
    BY Zenon, <1>1, TreeFacts, VoteFacts DEF Votable, Stack
  <2>2. Cardinality(u.votes) <= MaxLockoutHistory
    BY Zenon, <1>1 DEF Small
  <2>. QED
    BY Zenon, <1>1, <2>1, <2>2 DEF WellOrdered, Stack
<1>6. NoRollBack(account, u)
  <2>1. CASE account = EmptyVoteState
    <3>1. account.root = 0 /\ account.votes = {}
      BY <2>1 DEF EmptyVoteState
    <3>2. u.root \in Nat
      BY Zenon, <1>1, TreeFacts DEF Stack
    <3>. QED
      BY <3>1, <3>2 DEF NoRollBack
  <2>2. CASE account \in sent
    <3>1. /\ Votable(blocks, account) /\ account.votes \subseteq Votes
          /\ Follows(blocks, account, u) \/ Follows(blocks, u, account)
      BY Zenon, <2>2 DEF Inv, OrderInv, Votable, Stack, Small
    <3>2. ~Follows(blocks, u, account)
      <4> SUFFICES ASSUME Follows(blocks, u, account) PROVE FALSE
        BY Zenon
      <4>1. Reaches(u, t)
        BY Zenon, <1>3 DEF Reaches
      <4>2. Reaches(account, t)
        BY Zenon, <1>3, <4>1 DEF Follows
      <4>3. PICK v \in account.votes : t <= v.slot
        BY Zenon, <3>1, <4>2 DEF Reaches, Votable
      <4>4. v.slot < t /\ v.slot \in Nat /\ t \in Nat
        BY Zenon, <1>2, <1>3, <3>1, VoteFacts
      <4>. QED
        BY <4>3, <4>4
    <3>3. Follows(blocks, account, u)
      BY Zenon, <3>1, <3>2
    <3>4. u.root \in DOMAIN blocks /\ account.root <= u.root
      BY Zenon, <1>1, <3>3, TreeFacts DEF Follows, Stack
    <3>5. ASSUME NEW v \in account.votes, v.slot > u.root, NEW w \in u.votes,
                 v.slot <= w.slot,
                 \A x \in u.votes : v.slot <= x.slot => w.slot <= x.slot
          PROVE  IF v.slot = w.slot THEN v.conf <= w.conf
                                    ELSE ~IsLockedOutAtSlot(v, w.slot)
      <4>1. CASE v.slot = w.slot
        BY Zenon, <3>3, <4>1 DEF Follows
      <4>2. CASE v.slot # w.slot
        <5>1. /\ v.slot \in Nat /\ w.slot \in Nat /\ Lockout[v.conf] \in Nat
              /\ \A x \in u.votes : x.slot \in Nat
          BY Zenon, <1>1, <3>1, VoteFacts
        <5>2. ~\E x \in u.votes : x.slot = v.slot
          BY <3>5, <4>2, <5>1
        <5>3. v.slot \notin blocks[u.root].chain
          <6>1. \A x \in blocks[u.root].chain : x <= u.root /\ x \in Nat
            BY Zenon, <1>1, <3>4, TreeFacts
          <6>2. u.root \in Nat
            BY Zenon, <1>1, <3>4, TreeFacts
          <6>. QED
            BY <3>5, <5>1, <6>1, <6>2
        <5>4. Upheld(blocks, v, u)
          BY Zenon, <3>3 DEF Follows
        <5>5. w.slot > v.slot + Lockout[v.conf]
          <6>1. \A x \in u.votes : x.slot > v.slot => x.slot > v.slot + Lockout[v.conf]
            BY <5>2, <5>3, <5>4, Zenon DEF Upheld
          <6>2. w.slot > v.slot
            BY <3>5, <4>2, <5>1
          <6>. QED
            BY Zenon, <3>5, <6>1, <6>2
        <5>. QED
          BY <4>2, <5>1, <5>5 DEF IsLockedOutAtSlot
      <4>. QED
        BY Zenon, <4>1, <4>2
    <3>. QED
      BY Zenon, <3>4, <3>5 DEF NoRollBack
  <2>. QED
    BY Zenon, <2>1, <2>2 DEF Inv, AccountInv
<1>. QED
  BY Zenon, <1>4, <1>5, <1>6 DEF Accepted

-----------------------------------------------------------------------------
(* The theorems                                                            *)

INSTANCE FiniteSetTheorems

LEMMA SetFactsHold == SetFacts
<1>1. IsFiniteSet({}) /\ Cardinality({}) = 0
  BY Zenon, FS_EmptySet
<1>2. \A S : IsFiniteSet(S) => Cardinality(S) \in Nat /\ (Cardinality(S) = 0 <=> S = {})
  BY Zenon, FS_CardinalityType, FS_EmptySet
<1>3. \A S, T : IsFiniteSet(T) /\ S \subseteq T => IsFiniteSet(S) /\ Cardinality(S) <= Cardinality(T)
  BY Zenon, FS_Subset
<1>4. \A S, x : IsFiniteSet(S) /\ x \notin S =>
         IsFiniteSet(S \cup {x}) /\ Cardinality(S \cup {x}) = Cardinality(S) + 1
  BY Zenon, FS_AddElement
<1>5. \A S, x : IsFiniteSet(S) /\ x \in S => Cardinality(S \ {x}) = Cardinality(S) - 1
  BY Zenon, FS_RemoveElement
<1>6. ASSUME NEW S, NEW f, IsFiniteSet(S)
      PROVE  IsFiniteSet({f[x] : x \in S}) /\ Cardinality({f[x] : x \in S}) <= Cardinality(S)
  <2> DEFINE g == [x \in S |-> f[x]]
  <2>1. g \in Surjection(S, {f[x] : x \in S})
    BY Zenon DEF Surjection
  <2>. QED
    BY Zenon, <1>6, <2>1, FS_Surjection
<1>7. ASSUME NEW S, S \subseteq Nat, S # {}
      PROVE  \E m \in S : \A y \in S : m <= y
  <2> DEFINE R == {ss \in Nat \X Nat : ss[1] < ss[2]}
  <2>1. IsWellFoundedOn(R, Nat)
    BY Zenon, NatLessThanWellFounded DEF OpToRel
  <2>2. PICK m \in S : \A y \in S : <<y, m>> \notin R
    <3> HIDE DEF R
    <3>. QED
      BY Zenon, <1>7, <2>1, WFMin
  <2>3. ASSUME NEW y \in S
        PROVE  m <= y
    <3>1. y \in Nat /\ m \in Nat /\ <<y, m>>[1] = y /\ <<y, m>>[2] = m
      BY Zenon, <1>7
    <3>2. ~(y < m)
      BY Zenon, <2>2, <3>1
    <3>. QED
      BY <3>1, <3>2
  <2>. QED
    BY Zenon, <2>3
<1>. QED
  BY Zenon, <1>1, <1>2, <1>3, <1>4, <1>5, <1>6, <1>7 DEF SetFacts

(* The invariant is inductive.                                             *)
THEOREM Invariance == Spec => []Inv
<1>1. Init => Inv
  BY Zenon, SetFactsHold, InitInv
<1>2. Inv /\ [Next]_vars => Inv'
  BY Zenon, SetFactsHold, NextInv
<1>. QED
  BY <1>1, <1>2, PTL DEF Spec

(* The validator never votes against a lockout of a vote that it sent.     *)
THEOREM Lockouts == Spec => []LockoutsHonoured
<1>1. Inv => LockoutsHonoured
  BY Zenon, AreHonoured
<1>. QED
  BY <1>1, Invariance, PTL

(* The saved tower can be restored at every root that a restart may find.  *)
THEOREM Restores == Spec => []TowerRestores
<1>1. Inv => TowerRestores
  BY Zenon, SetFactsHold, AreRestored
<1>. QED
  BY <1>1, Invariance, PTL

(* The replay stage meets no panic around a vote.                          *)
THEOREM NoPanics == Spec => []ReplayNeverPanics
<1>1. Inv => ReplayNeverPanics
  BY Zenon, SetFactsHold, NeverPanics
<1>. QED
  BY <1>1, Invariance, PTL

(* The vote program accepts every vote that arrives on its fork in time.   *)
THEOREM Acceptance == Spec => []VotesAreAccepted
<1>1. Inv => VotesAreAccepted
  BY Zenon, SetFactsHold, AreAccepted
<1>. QED
  BY <1>1, Invariance, PTL

=============================================================================
