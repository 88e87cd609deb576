---------------------------- MODULE MeteringProofs ----------------------------
(***************************************************************************)
(* Proofs about the usage windows.  Whatever is slow, fails or dies, a     *)
(* debit goes through the windows in their order, and a window goes over   *)
(* its cap by no more than a charge for each request in flight or let      *)
(* through unchecked.  Undisturbed, no window forgets a debit it still has *)
(* to count, and nobody is told to wait too long: a debit that takes its   *)
(* time, fails or is abandoned in the middle breaks these.                 *)
(***************************************************************************)
EXTENDS MeteringProperties, FiniteSetTheorems, WellFoundedInduction, TLAPS

-----------------------------------------------------------------------------
\* Credits and windows.

LEMMA Numbered ==
  ASSUME NEW S, NEW s \in Seq(S)
  PROVE  Len(s) \in Nat /\ DOMAIN s = 1..Len(s) /\ \A i \in 1..Len(s) : s[i] \in S
OBVIOUS

LEMMA WindowsNumbered ==
  /\ W = 1..Len(Windows) /\ Len(Windows) \in Nat
  /\ \A w \in W : Windows[w].size \in Nat \ {0} /\ Windows[w].cap \in Nat
<1>1. Windows \in Seq([size : Nat \ {0}, cap : Nat])
  BY MeteringAssumption DEF MeteringAssumption
<1>2. W = 1..Len(Windows) /\ Len(Windows) \in Nat
  BY <1>1, Numbered DEF W
<1>3. \A w \in 1..Len(Windows) : Windows[w] \in [size : Nat \ {0}, cap : Nat]
  BY <1>1, Numbered
<1>q. QED  BY <1>2, <1>3

LEMMA CeilDivNat ==
  ASSUME NEW a \in Nat, NEW b \in Nat \ {0}
  PROVE  CeilDiv(a, b) \in Nat
<1>1. PICK n \in Nat : n = a + b - 1
  OBVIOUS
<1>2. n \div b \in Nat
  OBVIOUS
<1>q. QED  BY <1>1, <1>2 DEF CeilDiv

\* A charge is a number of credits, however the usage was found.
LEMMA ChargeNat ==
  ASSUME NEW u \in ChargedUsages
  PROVE  CreditsFor(u) \in Nat
<1>1. u \in [prompt : Nat, completion : Nat]
  <2>1. \A p, c \in Chars : EstimateUsage(p, c) \in [prompt : Nat, completion : Nat]
    <3>1. ASSUME NEW p \in Chars, NEW c \in Chars
          PROVE  EstimateUsage(p, c) \in [prompt : Nat, completion : Nat]
      <4>1. p \in Nat /\ c \in Nat /\ 4 \in Nat \ {0}
        BY MeteringAssumption DEF MeteringAssumption
      <4>2. CeilDiv(p, 4) \in Nat /\ CeilDiv(c, 4) \in Nat
        BY <4>1, CeilDivNat
      <4>q. QED  BY <4>2 DEF EstimateUsage
    <3>q. QED  BY <3>1
  <2>q. QED  BY <2>1, MeteringAssumption DEF MeteringAssumption, ChargedUsages
<1>2. PICK cost \in Nat : cost = u.prompt * PromptPrice + u.completion * CompletionPrice
  <2>1. u.prompt \in Nat /\ u.completion \in Nat /\ PromptPrice \in Nat /\ CompletionPrice \in Nat
    BY <1>1, MeteringAssumption DEF MeteringAssumption
  <2>2. u.prompt * PromptPrice \in Nat /\ u.completion * CompletionPrice \in Nat
    BY <2>1
  <2>q. QED  BY <2>2
<1>3. CeilDiv(cost, PriceUnit) \in Nat
  BY CeilDivNat, MeteringAssumption DEF MeteringAssumption
<1>q. QED  BY <1>2, <1>3 DEF CreditsFor

\* A set of numbers has a least one.
LEMMA LeastMember ==
  ASSUME NEW S \in SUBSET Nat, S # {}
  PROVE  \E k \in S : \A y \in S : k =< y
<1>1. PICK k \in S : \A y \in S : ~ (<<y, k>> \in OpToRel(<, Nat))
  BY NatLessThanWellFounded, WFMin
<1>2. \A y \in S : k =< y
  <2>1. TAKE y \in S
  <2>2. ~ (y < k)
    BY <1>1 DEF OpToRel
  <2>q. QED  BY <2>2
<1>q. QED  BY <1>2

\* The next window of a precheck is one of those that are left, and the first.
LEMMA NextWindow ==
  ASSUME NEW S \in SUBSET W, S # {}
  PROVE  Min(S) \in S /\ \A w \in S : Min(S) =< w
<1>1. S \in SUBSET Nat
  BY WindowsNumbered
<1>2. PICK k \in S : \A y \in S : k =< y
  BY <1>1, LeastMember
<1>q. QED  BY <1>2 DEF Min

-----------------------------------------------------------------------------
\* Sums.  What a recursive function computes is shown by the smallest set for
\* which it would not hold.

Debits == [at : Nat, credits : Nat, by : Requests]

Picked(E) == CHOOSE f \in E : TRUE

\* s is the function by which Credits sums up.
Sums(D, s) ==
  s = [E \in SUBSET D |-> IF E = {} THEN 0
                          ELSE Picked(E).credits + s[E \ {Picked(E)}]]

\* Of finite sets some is within no other.
LEMMA SmallestSet ==
  ASSUME NEW S, S # {}, \A E \in S : IsFiniteSet(E)
  PROVE  \E E \in S : \A F \in SUBSET E : F # E => F \notin S
<1> DEFINE sizes == {Cardinality(E) : E \in S}
<1>1. \A E \in S : Cardinality(E) \in Nat
  BY FS_CardinalityType
<1>2. PICK k \in sizes : \A m \in sizes : k =< m
  <2>1. sizes \in SUBSET Nat /\ sizes # {}
    BY <1>1
  <2> HIDE DEF sizes
  <2>q. QED  BY <2>1, LeastMember
<1>3. PICK E \in S : k = Cardinality(E)
  BY <1>2
<1>4. ASSUME NEW F \in SUBSET E, F # E, F \in S
      PROVE  FALSE
  <2>1. Cardinality(F) =< Cardinality(E) /\ Cardinality(E) # Cardinality(F)
    BY <1>4, FS_Subset
  <2>2. Cardinality(E) =< Cardinality(F)
    BY <1>2, <1>3, <1>4
  <2>q. QED  BY <1>1, <1>4, <2>1, <2>2
<1>q. QED  BY <1>4

\* What is picked is taken out.
LEMMA PickedIn ==
  ASSUME NEW E, E # {}
  PROVE  /\ Picked(E) \in E
         /\ E \ {Picked(E)} \in SUBSET E /\ E \ {Picked(E)} # E
<1>1. Picked(E) \in E
  BY DEF Picked
<1>q. QED  BY <1>1

\* What it makes of a set does not depend on where it started.
LEMMA SumsAgree ==
  ASSUME NEW A, NEW B, NEW f, NEW g, Sums(A, f), Sums(B, g),
         NEW D, IsFiniteSet(D), D \subseteq A, D \subseteq B
  PROVE  f[D] = g[D]
<1>1. \A E \in SUBSET D :
        /\ f[E] = IF E = {} THEN 0 ELSE Picked(E).credits + f[E \ {Picked(E)}]
        /\ g[E] = IF E = {} THEN 0 ELSE Picked(E).credits + g[E \ {Picked(E)}]
  <2>1. ASSUME NEW E \in SUBSET D
        PROVE  f[E] = IF E = {} THEN 0 ELSE Picked(E).credits + f[E \ {Picked(E)}]
    <3>1. E \in SUBSET A
      OBVIOUS
    <3>2. f = [F \in SUBSET A |-> IF F = {} THEN 0
                                  ELSE Picked(F).credits + f[F \ {Picked(F)}]]
      BY DEF Sums
    <3>q. QED  BY <3>1, <3>2, Zenon
  <2>2. ASSUME NEW E \in SUBSET D
        PROVE  g[E] = IF E = {} THEN 0 ELSE Picked(E).credits + g[E \ {Picked(E)}]
    <3>1. E \in SUBSET B
      OBVIOUS
    <3>2. g = [F \in SUBSET B |-> IF F = {} THEN 0
                                  ELSE Picked(F).credits + g[F \ {Picked(F)}]]
      BY DEF Sums
    <3>q. QED  BY <3>1, <3>2, Zenon
  <2>q. QED  BY <2>1, <2>2
<1>2. SUFFICES ASSUME f[D] # g[D]
               PROVE  FALSE
  OBVIOUS
<1> DEFINE Bad == {E \in SUBSET D : f[E] # g[E]}
<1>3. PICK E \in Bad : \A F \in SUBSET E : F # E => F \notin Bad
  <2>1. Bad # {} /\ \A E \in Bad : IsFiniteSet(E)
    BY <1>2, FS_Subset
  <2> HIDE DEF Bad
  <2>q. QED  BY <2>1, SmallestSet
<1>4. E # {}
  BY <1>1, <1>3
<1>5. E \ {Picked(E)} \in SUBSET E /\ E \ {Picked(E)} # E
  BY <1>4, PickedIn
<1>6. f[E \ {Picked(E)}] = g[E \ {Picked(E)}]
  BY <1>3, <1>5
<1>q. QED  BY <1>1, <1>3, <1>4, <1>6

\* It exists.
LEMMA SumsExist ==
  ASSUME NEW D, IsFiniteSet(D)
  PROVE  \E s : Sums(D, s)
<1>1. SUFFICES ASSUME ~ \E s : Sums(D, s)
               PROVE  FALSE
  OBVIOUS
<1> DEFINE Bad == {E \in SUBSET D : ~ \E s : Sums(E, s)}
<1>2. PICK E \in Bad : \A F \in SUBSET E : F # E => F \notin Bad
  <2>1. Bad # {} /\ \A E \in Bad : IsFiniteSet(E)
    BY <1>1, FS_Subset
  <2> HIDE DEF Bad
  <2>q. QED  BY <2>1, SmallestSet
<1>3. E \in SUBSET D /\ ~ \E s : Sums(E, s)
  BY <1>2
<1> DEFINE sum(F) == (CHOOSE s : Sums(F, s))[F]
           t == [F \in SUBSET E |-> IF F = {} THEN 0
                                    ELSE Picked(F).credits + sum(F \ {Picked(F)})]
<1>4. ASSUME NEW F \in SUBSET E, F # E
      PROVE  t[F] = sum(F)
  <2>1. Sums(F, CHOOSE s : Sums(F, s))
    <3>1. F \in SUBSET D /\ F \notin Bad
      BY <1>2, <1>3, <1>4
    <3>2. \E s : Sums(F, s)
      BY <3>1
    <3>q. QED  BY <3>2, Zenon
  <2>2. sum(F) = IF F = {} THEN 0
                 ELSE Picked(F).credits + (CHOOSE s : Sums(F, s))[F \ {Picked(F)}]
    <3>1. PICK s : s = CHOOSE u : Sums(F, u)
      OBVIOUS
    <3>2. s = [G \in SUBSET F |-> IF G = {} THEN 0
                                  ELSE Picked(G).credits + s[G \ {Picked(G)}]]
      BY <2>1, <3>1 DEF Sums
    <3>3. F \in SUBSET F
      OBVIOUS
    <3>4. s[F] = IF F = {} THEN 0 ELSE Picked(F).credits + s[F \ {Picked(F)}]
      BY <3>2, <3>3, Zenon
    <3>q. QED  BY <3>1, <3>4
  <2>3. CASE F = {}
    BY <2>2, <2>3
  <2>4. CASE F # {}
    <3> DEFINE G == F \ {Picked(F)}
    <3>1. G \in SUBSET F /\ G # F /\ G \in SUBSET E /\ G # E
      BY <1>4, <2>4, PickedIn
    <3>2. Sums(G, CHOOSE s : Sums(G, s))
      <4>1. G \in SUBSET D /\ G \notin Bad
        BY <1>2, <1>3, <3>1
      <4>2. \E s : Sums(G, s)
        BY <4>1
      <4>q. QED  BY <4>2, Zenon
    <3>3. IsFiniteSet(G)
      BY <1>3, <3>1, FS_Subset
    <3>4. (CHOOSE s : Sums(F, s))[G] = (CHOOSE s : Sums(G, s))[G]
      <4>1. PICK f : f = CHOOSE s : Sums(F, s)
        OBVIOUS
      <4>2. PICK g : g = CHOOSE s : Sums(G, s)
        OBVIOUS
      <4>3. Sums(F, f) /\ Sums(G, g)
        BY <2>1, <3>2, <4>1, <4>2
      <4>4. G \subseteq F /\ G \subseteq G
        BY <3>1
      <4> HIDE DEF G
      <4>5. f[G] = g[G]
        BY <3>3, <4>3, <4>4, SumsAgree
      <4>q. QED  BY <4>1, <4>2, <4>5
    <3>5. t[F] = Picked(F).credits + sum(G)
      BY <2>4
    <3>q. QED  BY <2>2, <2>4, <3>4, <3>5
  <2>q. QED  BY <2>3, <2>4
<1>5. Sums(E, t)
  <2>1. ASSUME NEW F \in SUBSET E
        PROVE  t[F] = IF F = {} THEN 0 ELSE Picked(F).credits + t[F \ {Picked(F)}]
    <3>1. CASE F = {}
      BY <3>1
    <3>2. CASE F # {}
      <4>1. F \ {Picked(F)} \in SUBSET E /\ F \ {Picked(F)} # E
        BY <3>2, PickedIn
      <4>2. t[F \ {Picked(F)}] = sum(F \ {Picked(F)})
        <5> HIDE DEF t, sum
        <5>q. QED  BY <1>4, <4>1
      <4>q. QED  BY <3>2, <4>2
    <3>q. QED  BY <3>1, <3>2
  <2>2. t = [F \in SUBSET E |-> t[F]]
    OBVIOUS
  <2>q. QED
    <3> HIDE DEF t
    <3>q. QED  BY <2>1, <2>2 DEF Sums
<1>q. QED  BY <1>3, <1>5

\* So it is the sum: nothing for no debit, and one debit more at a time.
LEMMA CreditsPicked ==
  ASSUME NEW D, IsFiniteSet(D)
  PROVE  Credits(D) = IF D = {} THEN 0 ELSE Picked(D).credits + Credits(D \ {Picked(D)})
<1>1. \A E : Credits(E) = (CHOOSE s : Sums(E, s))[E]
  BY DEF Credits, Sums, Picked
<1>2. PICK f : f = CHOOSE s : Sums(D, s)
  OBVIOUS
<1>3. Sums(D, f)
  <2>1. \E s : Sums(D, s)
    BY SumsExist
  <2>q. QED  BY <1>2, <2>1, Zenon
<1>4. f[D] = IF D = {} THEN 0 ELSE Picked(D).credits + f[D \ {Picked(D)}]
  <2>1. f = [G \in SUBSET D |-> IF G = {} THEN 0
                                ELSE Picked(G).credits + f[G \ {Picked(G)}]]
    BY <1>3 DEF Sums
  <2>2. D \in SUBSET D
    OBVIOUS
  <2>q. QED  BY <2>1, <2>2, Zenon
<1>5. CASE D = {}
  BY <1>1, <1>2, <1>4, <1>5
<1>6. CASE D # {}
  <2>1. PICK F : F = D \ {Picked(D)}
    OBVIOUS
  <2>2. F \subseteq D /\ F \subseteq F /\ IsFiniteSet(F)
    BY <2>1, FS_Subset
  <2>3. PICK g : g = CHOOSE s : Sums(F, s)
    OBVIOUS
  <2>4. Sums(F, g)
    <3>1. \E s : Sums(F, s)
      BY <2>2, SumsExist
    <3>q. QED  BY <2>3, <3>1, Zenon
  <2>5. f[F] = g[F]
    BY <1>3, <2>2, <2>4, SumsAgree
  <2>6. Credits(D) = f[D] /\ Credits(F) = g[F]
    BY <1>1, <1>2, <2>3
  <2>7. f[D] = Picked(D).credits + f[F]
    BY <1>4, <1>6, <2>1
  <2>q. QED  BY <1>6, <2>1, <2>5, <2>6, <2>7
<1>q. QED  BY <1>5, <1>6

\* A sum of credits is a number.
LEMMA CreditsNat ==
  ASSUME NEW D \in SUBSET Debits, IsFiniteSet(D)
  PROVE  Credits(D) \in Nat
<1>1. SUFFICES ASSUME Credits(D) \notin Nat
               PROVE  FALSE
  OBVIOUS
<1> DEFINE Bad == {E \in SUBSET D : Credits(E) \notin Nat}
<1>2. PICK E \in Bad : \A F \in SUBSET E : F # E => F \notin Bad
  <2>1. Bad # {} /\ \A E \in Bad : IsFiniteSet(E)
    BY <1>1, FS_Subset
  <2> HIDE DEF Bad
  <2>q. QED  BY <2>1, SmallestSet
<1>3. IsFiniteSet(E) /\ E \in SUBSET D
  BY <1>2, FS_Subset
<1>4. Credits(E) = IF E = {} THEN 0 ELSE Picked(E).credits + Credits(E \ {Picked(E)})
  BY <1>3, CreditsPicked
<1>5. E # {}
  BY <1>2, <1>4
<1>6. /\ Picked(E) \in Debits
      /\ E \ {Picked(E)} \in SUBSET E /\ E \ {Picked(E)} # E
  BY <1>3, <1>5, PickedIn
<1>7. Credits(E \ {Picked(E)}) \in Nat
  BY <1>2, <1>3, <1>6
<1>8. Picked(E).credits \in Nat
  BY <1>6 DEF Debits
<1>q. QED  BY <1>2, <1>4, <1>5, <1>7, <1>8

\* Whichever debit is taken out, the rest is less by its credits.
LEMMA CreditsOut ==
  ASSUME NEW D \in SUBSET Debits, IsFiniteSet(D), NEW e \in D
  PROVE  Credits(D) = e.credits + Credits(D \ {e})
<1>1. SUFFICES ASSUME Credits(D) # e.credits + Credits(D \ {e})
               PROVE  FALSE
  OBVIOUS
<1> DEFINE Bad == {E \in SUBSET D : \E x \in E : Credits(E) # x.credits + Credits(E \ {x})}
<1>2. PICK E \in Bad : \A F \in SUBSET E : F # E => F \notin Bad
  <2>1. Bad # {} /\ \A E \in Bad : IsFiniteSet(E)
    BY <1>1, FS_Subset
  <2> HIDE DEF Bad
  <2>q. QED  BY <2>1, SmallestSet
<1>3. PICK x \in E : Credits(E) # x.credits + Credits(E \ {x})
  BY <1>2
<1>4. IsFiniteSet(E) /\ E \in SUBSET D /\ E # {}
  BY <1>2, <1>3, FS_Subset
<1>5. PICK p : p = Picked(E)
  OBVIOUS
<1>6. p \in E /\ Credits(E) = p.credits + Credits(E \ {p})
  BY <1>4, <1>5, PickedIn, CreditsPicked
<1>7. p # x
  BY <1>3, <1>6
<1>8. PICK R : R = (E \ {p}) \ {x}
  OBVIOUS
<1>9. Credits(E \ {p}) = x.credits + Credits(R)
  <2>1. E \ {p} \in SUBSET E /\ E \ {p} # E /\ x \in E \ {p}
    BY <1>6, <1>7
  <2>2. E \ {p} \in SUBSET D /\ E \ {p} \notin Bad
    BY <1>2, <1>4, <2>1
  <2>q. QED  BY <1>8, <2>1, <2>2
<1>10. Credits(E \ {x}) = p.credits + Credits(R)
  <2>1. E \ {x} \in SUBSET E /\ E \ {x} # E /\ p \in E \ {x} /\ R = (E \ {x}) \ {p}
    BY <1>6, <1>7, <1>8
  <2>2. E \ {x} \in SUBSET D /\ E \ {x} \notin Bad
    BY <1>2, <1>4, <2>1
  <2>q. QED  BY <2>1, <2>2
<1>11. p.credits \in Nat /\ x.credits \in Nat /\ Credits(R) \in Nat
  <2>1. p \in Debits /\ x \in Debits
    BY <1>4, <1>6
  <2>2. R \in SUBSET Debits /\ IsFiniteSet(R)
    BY <1>4, <1>8, FS_Subset
  <2>q. QED  BY <2>1, <2>2, CreditsNat DEF Debits
<1>q. QED  BY <1>3, <1>6, <1>9, <1>10, <1>11

\* More debits are no less to pay.
LEMMA CreditsGrow ==
  ASSUME NEW D \in SUBSET Debits, IsFiniteSet(D), NEW C \in SUBSET D
  PROVE  Credits(C) =< Credits(D)
<1>1. SUFFICES ASSUME ~ (Credits(C) =< Credits(D))
               PROVE  FALSE
  OBVIOUS
<1> DEFINE Bad == {E \in SUBSET D : \E F \in SUBSET E : ~ (Credits(F) =< Credits(E))}
<1>2. PICK E \in Bad : \A F \in SUBSET E : F # E => F \notin Bad
  <2>1. Bad # {} /\ \A E \in Bad : IsFiniteSet(E)
    BY <1>1, FS_Subset
  <2> HIDE DEF Bad
  <2>q. QED  BY <2>1, SmallestSet
<1>3. PICK F \in SUBSET E : ~ (Credits(F) =< Credits(E))
  BY <1>2
<1>4. IsFiniteSet(E) /\ E \in SUBSET D /\ IsFiniteSet(F) /\ F \in SUBSET D
  BY <1>2, <1>3, FS_Subset
<1>5. Credits(E) \in Nat /\ Credits(F) \in Nat
  BY <1>4, CreditsNat
<1>6. F # E
  BY <1>3, <1>5
<1>7. PICK e \in E : e \notin F
  BY <1>3, <1>6
<1>8. E \ {e} \in SUBSET E /\ E \ {e} # E /\ F \in SUBSET (E \ {e}) /\ E \ {e} \in SUBSET D
  BY <1>3, <1>4, <1>7
<1>9. Credits(F) =< Credits(E \ {e})
  <2>1. E \ {e} \notin Bad
    BY <1>2, <1>8
  <2>q. QED  BY <1>8, <2>1
<1>10. Credits(E) = e.credits + Credits(E \ {e}) /\ e.credits \in Nat /\ Credits(E \ {e}) \in Nat
  <2>1. E \in SUBSET Debits /\ e \in Debits /\ E \ {e} \in SUBSET Debits /\ IsFiniteSet(E \ {e})
    BY <1>4, <1>8, FS_Subset
  <2>q. QED  BY <1>4, <2>1, CreditsOut, CreditsNat DEF Debits
<1>q. QED  BY <1>3, <1>5, <1>9, <1>10

\* One debit more costs no more than its credits.
LEMMA CreditsIn ==
  ASSUME NEW D \in SUBSET Debits, IsFiniteSet(D), NEW e \in Debits
  PROVE  /\ IsFiniteSet(D \cup {e})
         /\ Credits(D \cup {e}) =< Credits(D) + e.credits
<1>1. IsFiniteSet(D \cup {e}) /\ D \cup {e} \in SUBSET Debits
  BY FS_AddElement
<1>2. Credits(D \cup {e}) = e.credits + Credits((D \cup {e}) \ {e})
  BY <1>1, CreditsOut
<1>3. (D \cup {e}) \ {e} \in SUBSET D
  OBVIOUS
<1>4. Credits((D \cup {e}) \ {e}) =< Credits(D)
  BY <1>3, CreditsGrow
<1>5. IsFiniteSet((D \cup {e}) \ {e}) /\ (D \cup {e}) \ {e} \in SUBSET Debits
  BY <1>3, FS_Subset
<1>6. Credits(D) \in Nat /\ Credits((D \cup {e}) \ {e}) \in Nat /\ e.credits \in Nat
  BY <1>5, CreditsNat DEF Debits
<1>q. QED  BY <1>1, <1>2, <1>4, <1>6

-----------------------------------------------------------------------------
\* The invariant.

\* The locals of a request; its resets are only ever read by itself.
Typed(q) ==
  q \in [pc : Steps \cup Over \cup {"new"}, now : Nat, w : Nat,
         resets : {q.resets}, credits : Nat]

TypeOK ==
  /\ clock \in Nat
  /\ store \in [W -> SUBSET Debits]
  /\ written \in [W -> SUBSET Debits]
  /\ expiry \in [W -> Nat \cup {Never}]
  /\ req = [r \in Requests |-> req[r]]
  /\ \A r \in Requests : Typed(req[r])

\* A request looks at a time that has been, and records at the present one.
Places(q) ==
  /\ q.now =< clock
  /\ q.pc \in Checking => q.w \in W
  /\ q.pc \in Recording => q.w \in W /\ q.now = clock

Phases == \A r \in Requests : Places(req[r])

\* What is stored has been written, and nothing is from the future.
Sound ==
  \A w \in W : store[w] \subseteq written[w] /\ \A e \in written[w] : e.at =< clock

Extending(r, w) == req[r].pc = "extend" /\ req[r].w = w

\* A key outlives each debit in it by the grace, unless the one that wrote last
\* has yet to say so.
Lasts(w, e) ==
  \/ expiry[w] = Never
  \/ expiry[w] >= e.at + Windows[w].size + Grace
  \/ \E r \in Requests : Extending(r, w)

KeysOutlast == \A w \in W : \A e \in store[w] : Lasts(w, e)

MeteringInv ==
  /\ TypeOK /\ Phases /\ Sound
  /\ WindowsRemember /\ KeysOutlast

-----------------------------------------------------------------------------
\* What the loops go on with.

LEMMA NextCheck ==
  ASSUME NEW q, Typed(q), NEW w \in Nat
  PROVE  LET next == CheckFrom(q, w) IN
         /\ Typed(next) /\ next.now \in {0, q.now}
         /\ next.pc \in {"trim", "forward", "refused"}
         /\ next.pc = "trim" => next.w \in W
<1> DEFINE left == {v \in Capped : v >= w}
<1>1. CASE left # {}
  <2>1. PICK v \in W : v = Min(left)
    <3>1. left \in SUBSET W
      BY DEF Capped
    <3>q. QED  BY <1>1, <3>1, NextWindow
  <2>2. CheckFrom(q, w) = [q EXCEPT !.pc = "trim", !.w = v]
    BY <1>1, <2>1 DEF CheckFrom
  <2>3. v \in Nat
    BY WindowsNumbered
  <2>q. QED  BY <2>2, <2>3 DEF Typed, Steps, Checking
<1>2. CASE left = {} /\ q.resets = {}
  <2>1. CheckFrom(q, w) = Bare("forward")
    BY <1>2 DEF CheckFrom
  <2>q. QED  BY <2>1 DEF Bare, Typed, Steps
<1>3. CASE left = {} /\ q.resets # {}
  <2>1. CheckFrom(q, w) = [q EXCEPT !.pc = "refused"]
    BY <1>3 DEF CheckFrom
  <2>q. QED  BY <2>1 DEF Typed, Over
<1>q. QED  BY <1>1, <1>2, <1>3

LEMMA NextDebit ==
  ASSUME NEW q, Typed(q), NEW w \in Nat
  PROVE  LET next == DebitFrom(q, w) IN
         /\ Typed(next)
         /\ w \in W => next = [q EXCEPT !.pc = "debit", !.w = w]
         /\ w \notin W => next = Bare("done")
BY DEF DebitFrom, Bare, Typed, Steps, Recording, Over

\* A request that takes a step is as it was left, and no other has moved.
LEMMA Moved ==
  ASSUME TypeOK, NEW r \in Requests, NEW q, Typed(q), Become(r, q)
  PROVE  /\ req' = [s \in Requests |-> req'[s]]
         /\ req'[r] = q /\ \A s \in Requests \ {r} : req'[s] = req[s]
         /\ \A s \in Requests : Typed(req'[s])
BY DEF TypeOK, Become

\* A step that records nothing and starts no record.
LEMMA Quiet ==
  ASSUME MeteringInv, NEW r \in Requests, NEW q, Typed(q), Become(r, q),
         req[r].pc \notin Recording, q.pc \notin Recording, Places(q),
         UNCHANGED <<clock, store, expiry, written>>
  PROVE  MeteringInv'
<1> USE DEF MeteringInv
<1>0. /\ req' = [s \in Requests |-> req'[s]]
      /\ req'[r] = q /\ \A s \in Requests \ {r} : req'[s] = req[s]
      /\ \A s \in Requests : Typed(req'[s])
  BY Moved
<1>1. TypeOK'
  BY <1>0 DEF TypeOK, Typed
<1>2. Phases'
  BY <1>0 DEF Phases, Places
<1>3. Sound' /\ WindowsRemember'
  BY DEF Sound, WindowsRemember, Cutoff
<1>4. KeysOutlast'
  <2>1. \A s \in Requests, w \in W : Extending(s, w) => Extending(s, w)'
    BY <1>0 DEF Extending, Recording
  <2>q. QED  BY <2>1 DEF KeysOutlast, Lasts
<1>q. QED  BY <1>1, <1>2, <1>3, <1>4

\* A trim only takes away.
LEMMA KeepTakesAway ==
  ASSUME TypeOK, NEW w \in W, NEW kept \in SUBSET store[w], Keep(w, kept)
  PROVE  /\ store' \in [W -> SUBSET Debits] /\ \A v \in W : store'[v] \subseteq store[v]
         /\ expiry' \in [W -> Nat \cup {Never}]
BY DEF Keep, TypeOK

-----------------------------------------------------------------------------
\* One step at a time.

\* The precheck and an upstream failure touch nothing but their request.
LEMMA CheckMoves ==
  ASSUME TypeOK, NEW r \in Requests, req[r].now =< clock,
         Begin(r) \/ Sum(r) \/ UpstreamFails(r)
  PROVE  /\ req[r].pc \notin Recording
         /\ UNCHANGED <<clock, store, expiry, written, torn>>
         /\ \E q : /\ Typed(q) /\ q.now =< clock /\ Become(r, q)
                   /\ q.pc \notin Recording /\ (q.pc \in Checking => q.w \in W)
<1>t. Typed(req[r]) /\ clock \in Nat
  BY DEF TypeOK
<1>u. req[r].pc \notin Recording /\ UNCHANGED <<clock, store, expiry, written, torn>>
  BY DEF Begin, CanBegin, Sum, UpstreamFails, At, Recording
<1> DEFINE Goal == \E q : /\ Typed(q) /\ q.now =< clock /\ Become(r, q)
                          /\ q.pc \notin Recording /\ (q.pc \in Checking => q.w \in W)
<1>a. ASSUME NEW next, Typed(next), next.now \in {0, clock, req[r].now},
             next.pc \in {"trim", "forward", "refused", "done"},
             next.pc = "trim" => next.w \in W, Become(r, next)
      PROVE  Goal
  BY <1>a, <1>t DEF Recording, Checking, Typed
<1> HIDE DEF Goal
<1>1. ASSUME Begin(r) PROVE Goal
  <2> DEFINE q == [Idle EXCEPT !.now = clock]
  <2>1. Typed(q) /\ q.now = clock
    BY <1>t DEF Typed, Idle, Bare
  <2>2. PICK next : next = CheckFrom(q, 1)
    OBVIOUS
  <2>3. Become(r, next)
    BY <1>1, <2>2 DEF Begin
  <2> HIDE DEF q
  <2>4. Typed(next) /\ next.now \in {0, clock}
        /\ next.pc \in {"trim", "forward", "refused"} /\ (next.pc = "trim" => next.w \in W)
    BY <2>1, <2>2, NextCheck
  <2>q. QED  BY <1>a, <2>3, <2>4
<1>2. ASSUME Sum(r) PROVE Goal
  <2>1. PICK q : /\ Typed(q) /\ q.now = req[r].now /\ q.w = req[r].w
                 /\ Become(r, CheckFrom(q, req[r].w + 1))
    <3> DEFINE reset == [window |-> req[r].w,
                         at |-> Oldest(req[r].w, req[r].now) + Windows[req[r].w].size]
               full == Total(req[r].w, req[r].now) >= Windows[req[r].w].cap
               more == [req[r] EXCEPT !.resets = @ \cup {reset}]
    <3>1. Become(r, CheckFrom(IF full THEN more ELSE req[r], req[r].w + 1))
      BY <1>2 DEF Sum
    <3> HIDE DEF reset, full
    <3>2. Typed(more) /\ more.now = req[r].now /\ more.w = req[r].w
      BY <1>t DEF Typed
    <3> HIDE DEF more
    <3>q. QED  BY <1>t, <3>1, <3>2
  <2>2. PICK v \in Nat : v = req[r].w + 1
    BY <1>t DEF Typed
  <2>3. PICK next : next = CheckFrom(q, v)
    OBVIOUS
  <2>4. Typed(next) /\ next.now \in {0, req[r].now}
        /\ next.pc \in {"trim", "forward", "refused"} /\ (next.pc = "trim" => next.w \in W)
    BY <2>1, <2>2, <2>3, NextCheck
  <2>q. QED  BY <1>a, <2>1, <2>2, <2>3, <2>4
<1>3. ASSUME UpstreamFails(r) PROVE Goal
  <2>1. PICK next : next = Bare("done")
    OBVIOUS
  <2>2. Typed(next) /\ next.now = 0 /\ next.pc = "done"
    BY <2>1 DEF Typed, Bare, Over
  <2>3. Become(r, next)
    BY <1>3, <2>1 DEF UpstreamFails
  <2>q. QED  BY <1>a, <2>2, <2>3
<1>q. QED  BY <1>u, <1>1, <1>2, <1>3 DEF Goal

LEMMA CheckSteps ==
  ASSUME MeteringInv, NEW r \in Requests,
         Begin(r) \/ Sum(r) \/ UpstreamFails(r)
  PROVE  MeteringInv'
<1>1. TypeOK /\ req[r].now =< clock
  BY DEF MeteringInv, Phases, Places
<1>2. /\ req[r].pc \notin Recording
      /\ UNCHANGED <<clock, store, expiry, written>>
      /\ \E q : /\ Typed(q) /\ q.now =< clock /\ Become(r, q)
                /\ q.pc \notin Recording /\ (q.pc \in Checking => q.w \in W)
  BY <1>1, CheckMoves
<1>3. PICK q : /\ Typed(q) /\ q.now =< clock /\ Become(r, q)
               /\ q.pc \notin Recording /\ (q.pc \in Checking => q.w \in W)
  BY <1>2
<1>q. QED  BY <1>2, <1>3, Quiet DEF Places

\* A trim takes only what has left the window, at its own time and so now.
LEMMA TrimStep ==
  ASSUME MeteringInv, NEW r \in Requests, Trim(r)
  PROVE  MeteringInv'
<1> USE DEF MeteringInv
<1> DEFINE w == req[r].w
           q == [req[r] EXCEPT !.pc = "sum"]
           kept == Counted(w, req[r].now)
<1>t. Typed(req[r]) /\ Places(req[r]) /\ w \in W /\ req[r].pc = "trim" /\ clock \in Nat
  BY DEF TypeOK, Phases, Places, Trim, At, Checking
<1>k. kept \subseteq store[w] /\ \A e \in store[w] : e.at >= Cutoff(w, req[r].now) => e \in kept
  BY DEF Counted
<1>s. /\ store' = [store EXCEPT ![w] = kept]
      /\ expiry' = IF kept = {} THEN [expiry EXCEPT ![w] = Never] ELSE expiry
      /\ Become(r, q) /\ UNCHANGED <<clock, written>>
  BY DEF Trim, Keep
<1> HIDE DEF kept
<1>q. Typed(q) /\ q.pc \notin Recording /\ req[r].pc \notin Recording /\ Places(q)
  BY <1>t DEF Typed, Recording, Places, Checking, Steps
<1>0. /\ req' = [s \in Requests |-> req'[s]]
      /\ req'[r] = q /\ \A s \in Requests \ {r} : req'[s] = req[s]
      /\ \A s \in Requests : Typed(req'[s])
  BY <1>s, <1>q, Moved
<1>d. /\ \A v \in W : store'[v] \subseteq store[v] /\ store'[v] \in SUBSET Debits
      /\ store'[w] = kept /\ \A v \in W \ {w} : store'[v] = store[v]
      /\ store' \in [W -> SUBSET Debits]
  BY <1>s, <1>k, <1>t DEF TypeOK
<1>e. /\ expiry' \in [W -> Nat \cup {Never}]
      /\ \A v \in W : store'[v] # {} => expiry'[v] = expiry[v]
  BY <1>s, <1>d, <1>t DEF TypeOK
<1>1. TypeOK'
  BY <1>0, <1>d, <1>e, <1>s DEF TypeOK, Typed
<1>2. Phases'
  BY <1>0, <1>q, <1>s DEF Phases, Places
<1>3. Sound'
  BY <1>d, <1>s DEF Sound
<1>4. WindowsRemember'
  <2> SUFFICES ASSUME NEW v \in W, NEW e \in written[v], e.at >= Cutoff(v, clock)
               PROVE  e \in store'[v]
    BY <1>s DEF WindowsRemember, Cutoff
  <2>1. e \in store[v]
    BY DEF WindowsRemember
  <2>2. CASE v = w
    <3>1. e.at \in Nat /\ req[r].now \in Nat /\ req[r].now =< clock
          /\ Windows[w].size \in Nat
      BY <1>t, <2>1, <2>2, WindowsNumbered DEF TypeOK, Debits, Typed, Places
    <3>2. e.at >= Cutoff(w, req[r].now)
      BY <1>t, <2>2, <3>1 DEF Cutoff
    <3>q. QED  BY <1>k, <1>d, <2>1, <2>2, <3>2
  <2>q. QED  BY <1>d, <2>1, <2>2
<1>5. KeysOutlast'
  <2>1. \A s \in Requests, v \in W : Extending(s, v) => Extending(s, v)'
    BY <1>0, <1>t DEF Extending
  <2>2. ASSUME NEW v \in W, NEW e \in store'[v]
        PROVE  Lasts(v, e)'
    <3>1. e \in store[v] /\ expiry'[v] = expiry[v]
      BY <1>d, <1>e
    <3>2. Lasts(v, e)
      BY <3>1 DEF KeysOutlast
    <3>q. QED  BY <2>1, <3>1, <3>2 DEF Lasts
  <2>q. QED  BY <2>2 DEF KeysOutlast
<1>z. QED  BY <1>1, <1>2, <1>3, <1>4, <1>5

\* An answer sets what is owed, and no window has it yet.
LEMMA AnswerStep ==
  ASSUME MeteringInv, NEW r \in Requests, NEW u \in ChargedUsages, Answer(r, u)
  PROVE  MeteringInv'
<1> USE DEF MeteringInv
<1>t. Typed(req[r]) /\ clock \in Nat /\ req[r].pc = "forward"
  BY DEF TypeOK, Answer, At
<1> DEFINE q == [req[r] EXCEPT !.now = clock, !.credits = CreditsFor(u)]
<1>q. Typed(q) /\ q.now = clock
  BY <1>t, ChargeNat DEF Typed
<1>s. /\ Become(r, IF q.credits > 0 THEN DebitFrom(q, 1) ELSE Bare("done"))
      /\ UNCHANGED <<clock, store, expiry, written>>
  BY DEF Answer
<1> HIDE DEF q
<1>d. Typed(Bare("done")) /\ Bare("done").pc \notin Recording /\ Places(Bare("done"))
  BY <1>t DEF Typed, Bare, Recording, Places, Checking, Over
<1>1. CASE q.credits > 0 /\ 1 \in W
  <2> DEFINE next == [q EXCEPT !.pc = "debit", !.w = 1]
  <2>1. Become(r, next) /\ Typed(next)
    BY <1>1, <1>q, <1>s, NextDebit
  <2>2. next.pc = "debit" /\ next.w = 1 /\ next.now = clock
    BY <1>q DEF Typed
  <2> HIDE DEF next
  <2>0. /\ req' = [s \in Requests |-> req'[s]]
        /\ req'[r] = next /\ \A s \in Requests \ {r} : req'[s] = req[s]
        /\ \A s \in Requests : Typed(req'[s])
    BY <2>1, Moved
  <2>3. TypeOK'
    BY <1>s, <2>0 DEF TypeOK, Typed
  <2>4. Phases'
    BY <1>1, <1>s, <1>t, <2>0, <2>2 DEF Phases, Places, Checking
  <2>5. Sound' /\ WindowsRemember'
    BY <1>s DEF Sound, WindowsRemember, Cutoff
  <2>6. KeysOutlast'
    <3>1. \A s \in Requests, w \in W : Extending(s, w) => Extending(s, w)'
      BY <1>t, <2>0 DEF Extending
    <3>q. QED  BY <1>s, <3>1 DEF KeysOutlast, Lasts
  <2>q. QED  BY <2>3, <2>4, <2>5, <2>6
<1>2. CASE ~ (q.credits > 0 /\ 1 \in W)
  <2>1. Become(r, Bare("done"))
    BY <1>2, <1>q, <1>s, NextDebit
  <2>q. QED  BY <1>d, <1>s, <1>t, <2>1, Quiet DEF Recording
<1>z. QED  BY <1>1, <1>2

\* A debit is of the present, and its key is about to be extended.
LEMMA DebitStep ==
  ASSUME MeteringInv, NEW r \in Requests, Debit(r)
  PROVE  MeteringInv'
<1> USE DEF MeteringInv
<1> DEFINE w == req[r].w
           e == Owed(r)
           q == [req[r] EXCEPT !.pc = "extend"]
<1>t. /\ Typed(req[r]) /\ w \in W /\ req[r].now = clock /\ req[r].pc = "debit"
      /\ clock \in Nat
  BY DEF TypeOK, Phases, Places, Debit, At, Recording
<1>s. /\ store' = [store EXCEPT ![w] = @ \cup {e}]
      /\ written' = [written EXCEPT ![w] = @ \cup {e}]
      /\ Become(r, q) /\ UNCHANGED <<clock, expiry>>
  BY DEF Debit, Take
<1>e. e \in Debits /\ e.at = clock
  BY <1>t DEF Owed, Debits, Typed
<1>q. /\ Typed(q) /\ q.pc = "extend" /\ q.w = w /\ q.now = clock
      /\ q.credits = req[r].credits
  BY <1>t DEF Typed, Steps, Recording
<1> HIDE DEF q
<1>0. /\ req' = [s \in Requests |-> req'[s]]
      /\ req'[r] = q /\ \A s \in Requests \ {r} : req'[s] = req[s]
      /\ \A s \in Requests : Typed(req'[s])
  BY <1>q, <1>s, Moved
<1>x. \A s \in Requests, v \in W : Extending(s, v) => Extending(s, v)'
  BY <1>0, <1>q, <1>t DEF Extending
<1> HIDE DEF e
<1>d. /\ store'[w] = store[w] \cup {e} /\ \A v \in W \ {w} : store'[v] = store[v]
      /\ written'[w] = written[w] \cup {e} /\ \A v \in W \ {w} : written'[v] = written[v]
      /\ store' \in [W -> SUBSET Debits] /\ written' \in [W -> SUBSET Debits]
  BY <1>s, <1>e, <1>t DEF TypeOK
<1>1. TypeOK'
  BY <1>0, <1>d, <1>s DEF TypeOK, Typed
<1>2. Phases'
  BY <1>0, <1>q, <1>s, <1>t DEF Phases, Places, Checking
<1>3. Sound'
  BY <1>d, <1>e, <1>s, <1>t DEF Sound
<1>4. WindowsRemember'
  BY <1>d, <1>s DEF WindowsRemember, Cutoff
<1>5. KeysOutlast'
  <2> SUFFICES ASSUME NEW v \in W, NEW f \in store'[v]
               PROVE  Lasts(v, f)'
    BY DEF KeysOutlast
  <2>1. CASE v = w
    <3>1. req'[r].pc = "extend" /\ req'[r].w = v
      BY <1>0, <1>q, <2>1
    <3>q. QED  BY <3>1 DEF Lasts, Extending
  <2>2. CASE v # w
    <3>1. Lasts(v, f)
      BY <1>d, <2>2 DEF KeysOutlast
    <3>q. QED  BY <1>s, <1>x, <3>1 DEF Lasts
  <2>q. QED  BY <2>1, <2>2
<1>z. QED  BY <1>1, <1>2, <1>3, <1>4, <1>5

\* The key of the debit outlasts it from now on; the next window follows.
LEMMA ExtendStep ==
  ASSUME MeteringInv, Events = {}, NEW r \in Requests, Extend(r)
  PROVE  MeteringInv'
<1> USE DEF MeteringInv
<1> DEFINE w == req[r].w
           next == DebitFrom(req[r], req[r].w + 1)
<1>t. /\ Typed(req[r]) /\ w \in W /\ req[r].now = clock /\ req[r].pc = "extend"
      /\ clock \in Nat /\ w \in Nat
  BY WindowsNumbered DEF TypeOK, Phases, Places, Extend, At, Recording
<1>s. Become(r, next) /\ UNCHANGED <<clock, store, written>>
  BY DEF Extend
<1>n. PICK n \in Nat : n = w + 1
  BY <1>t
<1>q. /\ Typed(next)
      /\ n \in W => next = [req[r] EXCEPT !.pc = "debit", !.w = n]
      /\ n \notin W => next = Bare("done")
  BY <1>n, <1>t, NextDebit
<1>p. /\ n \in W => next.pc = "debit" /\ next.w = n /\ next.now = clock
                    /\ next.credits = req[r].credits
      /\ n \notin W => next.pc = "done" /\ next.now = 0
  <2>1. CASE n \in W
    <3>1. next = [req[r] EXCEPT !.pc = "debit", !.w = n]
      BY <1>q, <2>1
    <3> HIDE DEF next
    <3>q. QED  BY <1>t, <2>1, <3>1 DEF Typed
  <2>2. CASE n \notin W
    <3>1. next = Bare("done")
      BY <1>q, <2>2
    <3> HIDE DEF next
    <3>q. QED  BY <2>2, <3>1 DEF Bare
  <2>q. QED  BY <2>1, <2>2
<1> HIDE DEF next
<1>0. /\ req' = [s \in Requests |-> req'[s]]
      /\ req'[r] = next /\ \A s \in Requests \ {r} : req'[s] = req[s]
      /\ \A s \in Requests : Typed(req'[s])
  BY <1>q, <1>s, Moved
<1>x. \/ expiry' = [expiry EXCEPT ![w] = clock + Windows[w].size + Grace]
      \/ store[w] = {} /\ expiry' = expiry
  BY DEF Extend
<1>g. Windows[w].size \in Nat /\ Grace \in Nat
  BY <1>t, WindowsNumbered, MeteringAssumption DEF MeteringAssumption
<1>e. /\ expiry' \in [W -> Nat \cup {Never}]
      /\ \A v \in W \ {w} : expiry'[v] = expiry[v]
      /\ store[w] # {} => expiry'[w] = clock + Windows[w].size + Grace
  <2>1. PICK m \in Nat : m = clock + Windows[w].size + Grace
    BY <1>t, <1>g
  <2>q. QED  BY <1>t, <1>x, <2>1 DEF TypeOK
<1>1. TypeOK'
  BY <1>0, <1>e, <1>s DEF TypeOK, Typed
<1>2. Phases'
  BY <1>0, <1>p, <1>s, <1>t DEF Phases, Places, Checking, Recording
<1>3. Sound' /\ WindowsRemember'
  BY <1>s DEF Sound, WindowsRemember, Cutoff
<1>4. KeysOutlast'
  <2> SUFFICES ASSUME NEW v \in W, NEW f \in store[v]
               PROVE  Lasts(v, f)'
    BY <1>s DEF KeysOutlast
  <2>1. CASE v = w
    <3>1. f.at \in Nat /\ f.at =< clock
      BY DEF Sound, TypeOK, Debits
    <3>2. expiry'[v] >= f.at + Windows[v].size + Grace
      BY <1>e, <1>g, <1>t, <2>1, <3>1
    <3>q. QED  BY <3>2 DEF Lasts
  <2>2. CASE v # w
    <3>1. Lasts(v, f)
      BY DEF KeysOutlast
    <3>2. \A s \in Requests : Extending(s, v) => Extending(s, v)'
      BY <1>0, <1>t, <2>2 DEF Extending
    <3>q. QED  BY <1>e, <2>2, <3>1, <3>2 DEF Lasts
  <2>q. QED  BY <2>1, <2>2
<1>z. QED  BY <1>1, <1>2, <1>3, <1>4

\* A key that expires held only what its window no longer counts.
LEMMA TickStep ==
  ASSUME MeteringInv, Events = {}, Tick
  PROVE  MeteringInv'
<1> USE DEF MeteringInv
<1>s. /\ clock \in Nat /\ clock' = clock + 1 /\ clock' \in Nat
      /\ store' = [w \in W |-> IF Expired(w) THEN {} ELSE store[w]]
      /\ expiry' = [w \in W |-> IF Expired(w) THEN Never ELSE expiry[w]]
      /\ UNCHANGED <<req, written>>
  BY DEF Tick, TypeOK
<1>r. \A r \in Requests : req[r].pc \notin Recording
  BY DEF Tick
<1>d. \A w \in W : store'[w] \subseteq store[w]
  BY <1>s
<1>1. TypeOK'
  <2>1. store' \in [W -> SUBSET Debits] /\ expiry' \in [W -> Nat \cup {Never}]
    BY <1>s DEF TypeOK
  <2>q. QED  BY <1>s, <2>1 DEF TypeOK, Typed
<1>2. Phases'
  <2>1. \A r \in Requests : req[r].now \in Nat
    BY DEF TypeOK, Typed
  <2>q. QED  BY <1>s, <1>r, <2>1 DEF Phases, Places
<1>3. Sound'
  <2>1. \A w \in W : \A e \in written[w] : e.at \in Nat
    BY DEF TypeOK, Debits
  <2>q. QED  BY <1>s, <1>d, <2>1 DEF Sound
<1>4. WindowsRemember'
  <2> SUFFICES ASSUME NEW w \in W, NEW e \in written[w], e.at >= clock' - Windows[w].size
               PROVE  e \in store'[w]
    BY <1>s DEF WindowsRemember, Cutoff
  <2>1. /\ e.at \in Nat /\ Windows[w].size \in Nat /\ Grace \in Nat \ {0}
        /\ expiry[w] \in Nat \cup {Never}
    <3>1. e.at \in Nat /\ expiry[w] \in Nat \cup {Never}
      BY DEF TypeOK, Debits
    <3>2. Windows[w].size \in Nat /\ Grace \in Nat \ {0}
      BY WindowsNumbered, MeteringAssumption DEF MeteringAssumption
    <3>q. QED  BY <3>1, <3>2
  <2>2. e \in store[w]
    <3>1. e.at >= clock - Windows[w].size
      BY <1>s, <2>1
    <3>q. QED  BY <3>1 DEF WindowsRemember, Cutoff
  <2>3. Lasts(w, e)
    BY <2>2 DEF KeysOutlast
  <2>4. ~ Expired(w)
    <3> SUFFICES ASSUME expiry[w] # Never PROVE ~ (expiry[w] =< clock')
      BY DEF Expired
    <3>1. expiry[w] >= e.at + Windows[w].size + Grace
      BY <1>r, <2>3 DEF Lasts, Extending, Recording
    <3>2. expiry[w] \in Nat
      BY <2>1
    <3>q. QED  BY <1>s, <2>1, <3>1, <3>2
  <2>q. QED  BY <1>s, <2>2, <2>4
<1>5. KeysOutlast'
  <2> SUFFICES ASSUME NEW w \in W, NEW e \in store'[w]
               PROVE  Lasts(w, e)'
    BY DEF KeysOutlast
  <2>1. ~ Expired(w) /\ e \in store[w] /\ expiry'[w] = expiry[w]
    BY <1>s
  <2>2. Lasts(w, e)
    BY <2>1 DEF KeysOutlast
  <2>q. QED  BY <1>s, <2>1, <2>2 DEF Lasts, Extending
<1>q. QED  BY <1>1, <1>2, <1>3, <1>4, <1>5

-----------------------------------------------------------------------------
\* The theorems.

LEMMA MeteringInitially ==
  ASSUME Init
  PROVE  MeteringInv
<1>1. TypeOK
  BY DEF Init, TypeOK, Typed, Idle, Bare
<1>2. \A r \in Requests : req[r] = Idle
  BY DEF Init
<1>3. Phases
  BY <1>2 DEF Init, Phases, Places, Idle, Bare, Checking, Recording
<1>4. Sound /\ WindowsRemember /\ KeysOutlast
  BY DEF Init, Sound, WindowsRemember, KeysOutlast
<1>q. QED  BY <1>1, <1>3, <1>4 DEF MeteringInv

LEMMA MeteringStep ==
  ASSUME MeteringInv, Events = {}, [Next]_vars
  PROVE  MeteringInv'
<1>1. CASE UNCHANGED vars
  BY <1>1 DEF vars, MeteringInv, TypeOK, Typed, Phases, Places, Sound, WindowsRemember, Cutoff,
              KeysOutlast, Lasts, Extending
<1>2. ASSUME NEW r \in Requests, Serve(r)
      PROVE  MeteringInv'
  <2>1. ~ CheckFails(r) /\ ~ DebitFails(r) /\ ~ Abandon(r)
    BY DEF CheckFails, DebitFails, Abandon
  <2>q. QED
    BY <1>2, <2>1, CheckSteps, TrimStep, AnswerStep, DebitStep, ExtendStep DEF Serve
<1>3. CASE Tick
  BY <1>3, TickStep
<1>q. QED  BY <1>1, <1>2, <1>3 DEF Next, Finished

\* Nothing fails, is abandoned or takes its time: then a window has every debit
\* it still counts, and a key lives as long as its debits matter.
THEOREM WindowsAreKept ==
  ASSUME Events = {}
  PROVE  Spec => []MeteringInv
<1>1. Init => MeteringInv
  BY MeteringInitially
<1>2. MeteringInv /\ [Next]_vars => MeteringInv'
  BY MeteringStep
<1>q. QED  BY <1>1, <1>2, PTL DEF Spec

\* Neither a trim by another request nor the expiry of a key takes a debit that
\* a window still has to count.
THEOREM NothingForgotten ==
  ASSUME Events = {}
  PROVE  Spec => []WindowsRemember
<1>1. Spec => []MeteringInv
  BY WindowsAreKept
<1>2. MeteringInv => WindowsRemember
  BY DEF MeteringInv
<1>q. QED  BY <1>1, <1>2, PTL

-----------------------------------------------------------------------------
(* Through which windows a debit goes. *)

\* A request looks at a time that has been and at a window there is.
Aimed ==
  \A r \in Requests :
    /\ req[r].now =< clock
    /\ req[r].pc \in Checking \cup Recording => req[r].w \in W

\* The windows a debit has been to, and the others.
Before(r, w) == w < req[r].w \/ Extending(r, w)
Behind(r, w) == w >= req[r].w /\ ~ Extending(r, w)

Halfway ==
  \A r \in Requests : req[r].pc \in Recording =>
    \A w \in W : Before(r, w) => Owed(r) \in written[w]

Underway(e, w) ==
  /\ e.by \in Requests /\ req[e.by].pc \in Recording
  /\ e = Owed(e.by) /\ Behind(e.by, w)

\* A debit that one window took the next ones took as well, or they are about
\* to, or it broke off.
InOrder ==
  \A v, w \in W : \A e \in written[v] :
    e \in written[w] \/ (v < w /\ (Underway(e, w) \/ e.by \in torn))

OrderInv == TypeOK /\ Aimed /\ Halfway /\ InOrder

\* A step that debits nothing and after which its request is not debiting.
LEMMA QuietOrder ==
  ASSUME OrderInv, NEW r \in Requests, NEW q, Typed(q), Become(r, q),
         q.now =< clock, q.pc \notin Recording, q.pc \in Checking => q.w \in W,
         UNCHANGED <<clock, written>>,
         store' \in [W -> SUBSET Debits], expiry' \in [W -> Nat \cup {Never}],
         torn \subseteq torn', req[r].pc \in Recording => r \in torn'
  PROVE  OrderInv'
<1> USE DEF OrderInv
<1>0. /\ req' = [s \in Requests |-> req'[s]]
      /\ req'[r] = q /\ \A s \in Requests \ {r} : req'[s] = req[s]
      /\ \A s \in Requests : Typed(req'[s])
  BY Moved
<1>1. TypeOK'
  BY <1>0 DEF TypeOK, Typed
<1>2. Aimed'
  BY <1>0 DEF Aimed
<1>3. Halfway'
  BY <1>0 DEF Halfway, Before, Extending, Owed
<1>4. InOrder'
  <2> SUFFICES ASSUME NEW v \in W, NEW w \in W, NEW e \in written[v], e \notin written[w]
               PROVE  v < w /\ (Underway(e, w)' \/ e.by \in torn')
    BY DEF InOrder
  <2>1. v < w /\ (Underway(e, w) \/ e.by \in torn)
    BY DEF InOrder
  <2>2. CASE Underway(e, w) /\ e.by = r
    BY <2>1, <2>2 DEF Underway
  <2>3. CASE Underway(e, w) /\ e.by # r
    BY <1>0, <2>1, <2>3 DEF Underway, Owed, Behind, Extending
  <2>q. QED  BY <2>1, <2>2, <2>3
<1>q. QED  BY <1>1, <1>2, <1>3, <1>4

\* What the precheck does, and how a request comes to its end without a debit.
LEMMA EndOrder ==
  ASSUME OrderInv, NEW r \in Requests,
         \/ Begin(r) \/ Trim(r) \/ Sum(r) \/ CheckFails(r)
         \/ UpstreamFails(r) \/ Abandon(r)
         \/ DebitFails(r) /\ UNCHANGED <<store, written>>
  PROVE  OrderInv'
<1>t. /\ TypeOK /\ Typed(req[r]) /\ req[r].now =< clock /\ clock \in Nat
      /\ req[r].pc \in Checking => req[r].w \in W
      /\ store \in [W -> SUBSET Debits] /\ expiry \in [W -> Nat \cup {Never}]
  BY DEF OrderInv, TypeOK, Aimed
<1>1. CASE Begin(r) \/ Sum(r) \/ UpstreamFails(r)
  <2>1. /\ req[r].pc \notin Recording
        /\ UNCHANGED <<clock, store, expiry, written, torn>>
        /\ \E q : /\ Typed(q) /\ q.now =< clock /\ Become(r, q)
                  /\ q.pc \notin Recording /\ (q.pc \in Checking => q.w \in W)
    BY <1>1, <1>t, CheckMoves
  <2>2. PICK q : /\ Typed(q) /\ q.now =< clock /\ Become(r, q)
                 /\ q.pc \notin Recording /\ (q.pc \in Checking => q.w \in W)
    BY <2>1
  <2>q. QED  BY <1>t, <2>1, <2>2, QuietOrder
<1>2. CASE Trim(r) \/ CheckFails(r)
  <2>1. /\ req[r].pc \in Checking /\ req[r].pc \notin Recording
        /\ UNCHANGED <<clock, written, torn>>
    BY <1>2 DEF Trim, CheckFails, At, Checking, Recording
  <2>2. store' \in [W -> SUBSET Debits] /\ expiry' \in [W -> Nat \cup {Never}]
    <3>1. CASE UNCHANGED <<store, expiry>>
      BY <1>t, <3>1
    <3>2. CASE Keep(req[r].w, Counted(req[r].w, req[r].now))
      <4>1. Counted(req[r].w, req[r].now) \in SUBSET store[req[r].w]
        BY DEF Counted
      <4>q. QED  BY <1>t, <2>1, <3>2, <4>1, KeepTakesAway
    <3>q. QED  BY <1>2, <3>1, <3>2 DEF Trim, CheckFails
  <2>3. PICK q : q = [req[r] EXCEPT !.pc = "sum"]
    OBVIOUS
  <2>4. PICK p : p = Bare("forward")
    OBVIOUS
  <2>5. /\ Typed(q) /\ q.pc = "sum" /\ q.w = req[r].w /\ q.now = req[r].now
        /\ Typed(p) /\ p.pc = "forward" /\ p.now = 0
    BY <1>t, <2>3, <2>4 DEF Typed, Steps, Checking, Bare
  <2>6. Become(r, q) \/ Become(r, p)
    BY <1>2, <2>3, <2>4 DEF Trim, CheckFails
  <2>7. /\ q.now =< clock /\ q.pc \notin Recording /\ (q.pc \in Checking => q.w \in W)
        /\ p.now =< clock /\ p.pc \notin Recording /\ (p.pc \in Checking => p.w \in W)
    BY <1>t, <2>1, <2>5 DEF Recording, Checking
  <2>q. QED  BY <2>1, <2>2, <2>5, <2>6, <2>7, QuietOrder
<1>3. CASE Abandon(r) \/ (DebitFails(r) /\ UNCHANGED <<store, written>>)
  <2>1. PICK here \in {"done", "dead"} : Become(r, Bare(here))
    BY <1>3 DEF DebitFails, Abandon
  <2>2. PICK q : q = Bare(here)
    OBVIOUS
  <2>3. /\ Typed(q) /\ q.now = 0 /\ q.pc \notin Recording /\ q.pc \notin Checking
    BY <2>2 DEF Bare, Typed, Over, Recording, Checking
  <2>4. /\ UNCHANGED <<clock, store, expiry, written>>
        /\ torn \subseteq torn' /\ (req[r].pc \in Recording => r \in torn')
    BY <1>3 DEF DebitFails, Abandon
  <2>q. QED  BY <1>t, <2>1, <2>2, <2>3, <2>4, QuietOrder
<1>q. QED  BY <1>1, <1>2, <1>3

\* An answer sets what is owed; the first window comes first.
LEMMA AnswerOrder ==
  ASSUME OrderInv, NEW r \in Requests, NEW u \in ChargedUsages, Answer(r, u)
  PROVE  OrderInv'
<1> USE DEF OrderInv
<1>t. Typed(req[r]) /\ clock \in Nat /\ req[r].pc = "forward"
  BY DEF TypeOK, Answer, At
<1> DEFINE q == [req[r] EXCEPT !.now = clock, !.credits = CreditsFor(u)]
<1>q. Typed(q) /\ q.now = clock
  BY <1>t, ChargeNat DEF Typed
<1>s. /\ Become(r, IF q.credits > 0 THEN DebitFrom(q, 1) ELSE Bare("done"))
      /\ UNCHANGED <<clock, store, expiry, written, torn>>
  BY DEF Answer
<1> HIDE DEF q
<1>1. CASE q.credits > 0 /\ 1 \in W
  <2> DEFINE next == [q EXCEPT !.pc = "debit", !.w = 1]
  <2>1. Become(r, next) /\ Typed(next)
    BY <1>1, <1>q, <1>s, NextDebit
  <2>2. next.pc = "debit" /\ next.w = 1 /\ next.now = clock
    BY <1>q DEF Typed
  <2> HIDE DEF next
  <2>0. /\ req' = [s \in Requests |-> req'[s]]
        /\ req'[r] = next /\ \A s \in Requests \ {r} : req'[s] = req[s]
        /\ \A s \in Requests : Typed(req'[s])
    BY <2>1, Moved
  <2>3. TypeOK'
    BY <1>s, <2>0 DEF TypeOK, Typed
  <2>4. Aimed'
    BY <1>1, <1>s, <1>t, <2>0, <2>2 DEF Aimed
  <2>5. Halfway'
    <3>1. \A w \in W : ~ Before(r, w)'
      BY <2>0, <2>2, WindowsNumbered DEF Before, Extending
    <3>q. QED  BY <1>s, <2>0, <3>1 DEF Halfway, Before, Extending, Owed
  <2>6. InOrder'
    <3>1. ASSUME NEW w \in W, NEW e, Underway(e, w)
          PROVE  Underway(e, w)'
      BY <1>t, <2>0, <3>1 DEF Underway, Owed, Behind, Extending, Recording
    <3>q. QED  BY <1>s, <3>1 DEF InOrder
  <2>q. QED  BY <2>3, <2>4, <2>5, <2>6
<1>2. CASE ~ (q.credits > 0 /\ 1 \in W)
  <2>1. Become(r, Bare("done"))
    BY <1>2, <1>q, <1>s, NextDebit
  <2>2. PICK p : p = Bare("done")
    OBVIOUS
  <2>3. /\ Typed(p) /\ p.now = 0 /\ p.pc \notin Recording /\ p.pc \notin Checking
    BY <2>2 DEF Bare, Typed, Over, Recording, Checking
  <2>4. req[r].pc \notin Recording
    BY <1>t DEF Recording
  <2>q. QED  BY <1>s, <1>t, <2>1, <2>2, <2>3, <2>4, QuietOrder DEF TypeOK
<1>z. QED  BY <1>1, <1>2

\* A window takes a debit that all before it have and none after it has; a
\* debit that is said to have failed breaks off there.
LEMMA DebitOrder ==
  ASSUME OrderInv, NEW r \in Requests,
         Debit(r) \/ (DebitFails(r) /\ Take(req[r].w, Owed(r)))
  PROVE  OrderInv'
<1> USE DEF OrderInv
<1> DEFINE w == req[r].w
           e == Owed(r)
<1>t. /\ Typed(req[r]) /\ w \in W /\ req[r].now =< clock /\ req[r].pc = "debit"
      /\ req[r].now \in Nat /\ clock \in Nat
  BY DEF TypeOK, Aimed, Debit, DebitFails, At, Recording, Typed
<1>s. /\ store' = [store EXCEPT ![w] = @ \cup {e}]
      /\ written' = [written EXCEPT ![w] = @ \cup {e}]
      /\ UNCHANGED <<clock, expiry>> /\ torn \subseteq torn'
  BY DEF Debit, DebitFails, Take
<1>q. PICK q : /\ Typed(q) /\ Become(r, q) /\ q.now =< clock
               /\ \/ /\ q.pc = "extend" /\ q.w = w /\ q.now = req[r].now
                     /\ q.credits = req[r].credits
                  \/ q.pc = "done" /\ r \in torn'
  <2>1. CASE Debit(r)
    <3>1. PICK p : p = [req[r] EXCEPT !.pc = "extend"]
      OBVIOUS
    <3>2. Typed(p) /\ p.pc = "extend" /\ p.w = w /\ p.now = req[r].now
          /\ p.credits = req[r].credits
      BY <1>t, <3>1 DEF Typed, Steps, Recording
    <3>q. QED  BY <1>t, <2>1, <3>1, <3>2 DEF Debit
  <2>2. CASE DebitFails(r)
    <3>1. PICK p : p = Bare("done")
      OBVIOUS
    <3>2. Typed(p) /\ p.pc = "done" /\ p.now = 0
      BY <3>1 DEF Bare, Typed, Over
    <3>q. QED  BY <1>t, <2>2, <3>1, <3>2 DEF DebitFails
  <2>q. QED  BY <2>1, <2>2
<1>e. e \in Debits /\ e.by = r
  BY <1>t DEF Owed, Debits, Typed
<1>0. /\ req' = [s \in Requests |-> req'[s]]
      /\ req'[r] = q /\ \A s \in Requests \ {r} : req'[s] = req[s]
      /\ \A s \in Requests : Typed(req'[s])
  BY <1>q, Moved
<1>o. /\ q.pc = "extend" => Owed(r)' = e
      /\ \A s \in Requests \ {r} : Owed(s)' = Owed(s)
  BY <1>0, <1>q DEF Owed
<1> HIDE DEF e
<1>d. /\ store' \in [W -> SUBSET Debits] /\ written' \in [W -> SUBSET Debits]
      /\ written'[w] = written[w] \cup {e} /\ \A v \in W \ {w} : written'[v] = written[v]
  BY <1>s, <1>e, <1>t DEF TypeOK
<1>1. TypeOK'
  BY <1>0, <1>d, <1>s DEF TypeOK, Typed
<1>2. Aimed'
  BY <1>0, <1>q, <1>s, <1>t DEF Aimed, Checking, Recording
<1>3. Halfway'
  <2> SUFFICES ASSUME NEW s \in Requests, req'[s].pc \in Recording,
                      NEW v \in W, Before(s, v)'
               PROVE  Owed(s)' \in written'[v]
    BY DEF Halfway
  <2>0. s = r => q.pc = "extend"
    BY <1>0, <1>q DEF Recording
  <2>1. CASE s = r /\ v # w
    <3>1. Before(r, v)
      BY <1>0, <1>q, <2>0, <2>1 DEF Before, Extending
    <3>2. Owed(r) \in written[v]
      BY <1>t, <3>1 DEF Halfway, Recording
    <3>q. QED  BY <1>d, <1>o, <2>0, <2>1, <3>2 DEF e
  <2>2. CASE s = r /\ v = w
    BY <1>d, <1>o, <2>0, <2>2
  <2>3. CASE s # r
    <3>1. Before(s, v) /\ req[s].pc \in Recording
      BY <1>0, <2>3 DEF Before, Extending
    <3>q. QED  BY <1>d, <1>o, <2>3, <3>1 DEF Halfway
  <2>q. QED  BY <2>1, <2>2, <2>3
<1>4. InOrder'
  <2> SUFFICES ASSUME NEW u \in W, NEW v \in W, NEW f \in written'[u], f \notin written'[v]
               PROVE  u < v /\ (Underway(f, v)' \/ f.by \in torn')
    BY DEF InOrder
  <2>n. u \in Nat /\ v \in Nat /\ w \in Nat
    BY <1>t, WindowsNumbered
  <2>1. CASE f = e
    <3>1. v # w /\ Owed(r) \notin written[v]
      BY <1>d, <2>1 DEF e
    <3>2. ~ Before(r, v)
      BY <1>t, <3>1 DEF Halfway, Recording
    <3>3. v > w
      BY <2>n, <3>1, <3>2 DEF Before
    <3>4. u < v
      <4>1. CASE u = w
        BY <2>n, <3>3, <4>1
      <4>2. CASE u # w
        BY <1>d, <2>1, <3>1, <4>2 DEF InOrder
      <4>q. QED  BY <4>1, <4>2
    <3>5. CASE q.pc = "extend"
      <4>1. req'[r].pc = "extend" /\ req'[r].w = w
        BY <1>0, <1>q, <3>5
      <4>2. req'[r].pc \in Recording /\ Behind(r, v)'
        BY <2>n, <3>3, <4>1 DEF Behind, Extending, Recording
      <4>q. QED  BY <1>e, <1>o, <2>1, <3>4, <3>5, <4>2 DEF Underway
    <3>6. CASE q.pc # "extend"
      BY <1>e, <1>q, <2>1, <3>4, <3>6
    <3>q. QED  BY <3>5, <3>6
  <2>2. CASE f # e
    <3>1. f \in written[u] /\ f \notin written[v]
      BY <1>d, <2>2
    <3>2. u < v /\ (Underway(f, v) \/ f.by \in torn)
      BY <3>1 DEF InOrder
    <3>3. CASE Underway(f, v)
      <4>1. f.by # r
        BY <2>2, <3>3 DEF Underway, e
      <4>q. QED  BY <1>0, <1>o, <3>2, <3>3, <4>1 DEF Underway, Behind, Extending
    <3>q. QED  BY <1>s, <3>2, <3>3
  <2>q. QED  BY <2>1, <2>2
<1>z. QED  BY <1>1, <1>2, <1>3, <1>4

\* After a window comes the next one; after the last, none is left out.
LEMMA ExtendOrder ==
  ASSUME OrderInv, NEW r \in Requests, Extend(r)
  PROVE  OrderInv'
<1> USE DEF OrderInv
<1> DEFINE w == req[r].w
           next == DebitFrom(req[r], req[r].w + 1)
<1>t. /\ Typed(req[r]) /\ w \in W /\ req[r].now =< clock /\ req[r].pc = "extend"
      /\ clock \in Nat /\ w \in Nat
  BY WindowsNumbered DEF TypeOK, Aimed, Extend, At, Recording
<1>s. Become(r, next) /\ UNCHANGED <<clock, store, written, torn>>
  BY DEF Extend
<1>n. PICK n \in Nat : n = w + 1
  BY <1>t
<1>q. /\ Typed(next)
      /\ n \in W => next = [req[r] EXCEPT !.pc = "debit", !.w = n]
      /\ n \notin W => next = Bare("done")
  BY <1>n, <1>t, NextDebit
<1>p. /\ n \in W => next.pc = "debit" /\ next.w = n /\ next.now = req[r].now
                    /\ next.credits = req[r].credits
      /\ n \notin W => next.pc = "done" /\ next.now = 0
  <2>1. CASE n \in W
    <3>1. next = [req[r] EXCEPT !.pc = "debit", !.w = n]
      BY <1>q, <2>1
    <3> HIDE DEF next
    <3>q. QED  BY <1>t, <2>1, <3>1 DEF Typed
  <2>2. CASE n \notin W
    <3>1. next = Bare("done")
      BY <1>q, <2>2
    <3> HIDE DEF next
    <3>q. QED  BY <2>2, <3>1 DEF Bare
  <2>q. QED  BY <2>1, <2>2
<1> HIDE DEF next
<1>0. /\ req' = [s \in Requests |-> req'[s]]
      /\ req'[r] = next /\ \A s \in Requests \ {r} : req'[s] = req[s]
      /\ \A s \in Requests : Typed(req'[s])
  BY <1>q, <1>s, Moved
<1>e. expiry' \in [W -> Nat \cup {Never}]
  <2>1. Windows[w].size \in Nat /\ Grace \in Nat
    BY <1>t, WindowsNumbered, MeteringAssumption DEF MeteringAssumption
  <2>2. PICK m \in Nat : m = clock + Windows[w].size + Grace
    BY <1>t, <2>1
  <2>3. expiry' = [expiry EXCEPT ![w] = m] \/ expiry' = expiry
    BY <2>2 DEF Extend
  <2>q. QED  BY <1>t, <2>3 DEF TypeOK
<1>1. TypeOK'
  BY <1>0, <1>e, <1>s DEF TypeOK, Typed
<1>2. Aimed'
  BY <1>0, <1>p, <1>s, <1>t DEF Aimed, Checking, Recording
<1>3. Halfway'
  <2> SUFFICES ASSUME NEW s \in Requests, req'[s].pc \in Recording,
                      NEW v \in W, Before(s, v)'
               PROVE  Owed(s)' \in written[v]
    BY <1>s DEF Halfway
  <2>1. CASE s = r
    <3>1. n \in W /\ next.pc = "debit" /\ next.w = n
      BY <1>0, <1>p, <2>1 DEF Recording
    <3>2. v \in Nat /\ v < n
      BY <1>0, <2>1, <3>1, WindowsNumbered DEF Before, Extending
    <3>3. Before(r, v)
      BY <1>n, <1>t, <3>2 DEF Before, Extending
    <3>4. Owed(r)' = Owed(r)
      BY <1>0, <1>p, <3>1 DEF Owed
    <3>q. QED  BY <1>t, <2>1, <3>3, <3>4 DEF Halfway, Recording
  <2>2. CASE s # r
    BY <1>0, <2>2 DEF Halfway, Before, Extending, Owed
  <2>q. QED  BY <2>1, <2>2
<1>4. InOrder'
  <2>1. ASSUME NEW v \in W, NEW f, Underway(f, v)
        PROVE  Underway(f, v)'
    <3>1. CASE f.by = r
      <4>1. v \in Nat /\ v > w
        BY <1>t, <2>1, <3>1, WindowsNumbered DEF Underway, Behind, Extending
      <4>2. n \in W /\ v >= n
        BY <1>n, <1>t, <4>1, WindowsNumbered
      <4>3. Owed(r)' = Owed(r)
        BY <1>0, <1>p, <4>2 DEF Owed
      <4>4. req'[r].pc = "debit" /\ req'[r].w = n
        BY <1>0, <1>p, <4>2
      <4>q. QED  BY <2>1, <3>1, <4>2, <4>3, <4>4 DEF Underway, Behind, Extending, Recording
    <3>2. CASE f.by # r
      BY <1>0, <2>1, <3>2 DEF Underway, Owed, Behind, Extending
    <3>q. QED  BY <3>1, <3>2
  <2>q. QED  BY <1>s, <2>1 DEF InOrder
<1>z. QED  BY <1>1, <1>2, <1>3, <1>4

\* Time debits nothing.
LEMMA TickOrder ==
  ASSUME OrderInv, Tick
  PROVE  OrderInv'
<1> USE DEF OrderInv
<1>s. /\ clock \in Nat /\ clock' = clock + 1 /\ clock' \in Nat
      /\ store' = [w \in W |-> IF Expired(w) THEN {} ELSE store[w]]
      /\ expiry' = [w \in W |-> IF Expired(w) THEN Never ELSE expiry[w]]
      /\ UNCHANGED <<req, written, torn>>
  BY DEF Tick, TypeOK
<1>1. TypeOK'
  <2>1. store' \in [W -> SUBSET Debits] /\ expiry' \in [W -> Nat \cup {Never}]
    BY <1>s DEF TypeOK
  <2>q. QED  BY <1>s, <2>1 DEF TypeOK, Typed
<1>2. Aimed'
  <2>1. \A r \in Requests : req[r].now \in Nat
    BY DEF TypeOK, Typed
  <2>q. QED  BY <1>s, <2>1 DEF Aimed
<1>3. Halfway' /\ InOrder'
  BY <1>s DEF Halfway, InOrder, Before, Behind, Extending, Owed, Underway
<1>q. QED  BY <1>1, <1>2, <1>3

\* Whatever is slow, fails or dies, a debit goes through the windows in their
\* order, and only one that broke off is missing from any of them for good.
THEOREM DebitsGoInOrder == Spec => []DebitsInOrder
<1>1. Init => OrderInv
  <2> SUFFICES ASSUME Init PROVE OrderInv
    OBVIOUS
  <2>1. TypeOK
    BY DEF Init, TypeOK, Typed, Idle, Bare
  <2>2. \A r \in Requests : req[r] = Idle
    BY DEF Init
  <2>3. Aimed /\ Halfway
    BY <2>2 DEF Init, Aimed, Halfway, Idle, Bare, Checking, Recording
  <2>4. InOrder
    BY DEF Init, InOrder
  <2>q. QED  BY <2>1, <2>3, <2>4 DEF OrderInv
<1>2. OrderInv /\ [Next]_vars => OrderInv'
  <2> SUFFICES ASSUME OrderInv, [Next]_vars PROVE OrderInv'
    OBVIOUS
  <2>1. CASE UNCHANGED vars
    BY <2>1 DEF vars, OrderInv, TypeOK, Typed, Aimed, Halfway, InOrder, Before, Behind,
                Extending, Owed, Underway
  <2>2. ASSUME NEW r \in Requests, Serve(r)
        PROVE  OrderInv'
    <3>1. CASE DebitFails(r)
      <4>1. Take(req[r].w, Owed(r)) \/ UNCHANGED <<store, written>>
        BY <3>1 DEF DebitFails
      <4>q. QED  BY <3>1, <4>1, EndOrder, DebitOrder
    <3>2. CASE ~ DebitFails(r)
      BY <2>2, <3>2, EndOrder, AnswerOrder, DebitOrder, ExtendOrder DEF Serve
    <3>q. QED  BY <3>1, <3>2
  <2>3. CASE Tick
    BY <2>3, TickOrder
  <2>q. QED  BY <2>1, <2>2, <2>3 DEF Next, Finished
<1>3. OrderInv => DebitsInOrder
  BY DEF OrderInv, InOrder, Underway, DebitsInOrder
<1>q. QED  BY <1>1, <1>2, <1>3, PTL DEF Spec

-----------------------------------------------------------------------------
(* How far over its cap a window can go. *)

\* A request that may still debit window w: it passed the check there.
Owes(q, w) ==
  \/ q.pc = "forward"
  \/ q.pc = "debit" /\ q.w =< w
  \/ q.pc = "extend" /\ q.w < w
  \/ q.pc \in Checking /\ q.resets = {} /\ q.w > w

Debtors(w) == {r \in Requests : Owes(req[r], w)}

Local(q) ==
  /\ q.now =< clock
  /\ q.pc \in Checking => q.w \in W
  /\ q.pc \in Recording => q.w \in W /\ q.credits =< MaxCredits

Counters ==
  /\ IsFiniteSet(InFlight) /\ Cardinality(InFlight) =< MaxInFlight
  /\ IsFiniteSet(unchecked)
  /\ \A r \in unchecked : r \in Requests /\ req[r].pc \notin Checking \cup {"new"}

Stored == \A w \in W : IsFiniteSet(store[w])

\* What a window counts and what may still be added to it.
Balanced(w) ==
  Credits(Counted(w, clock)) + Cardinality(Debtors(w)) * MaxCredits
    < Windows[w].cap + (MaxInFlight + Cardinality(unchecked)) * MaxCredits

BudgetInv ==
  /\ TypeOK /\ \A r \in Requests : Local(req[r])
  /\ Counters /\ Stored
  /\ \A w \in Capped : Balanced(w)

\* No charge is beyond all bounds.
Affordable == \E m \in Nat : \A u \in ChargedUsages : CreditsFor(u) =< m

\* Then one charge is the dearest.
LEMMA DearestCharge ==
  ASSUME Affordable
  PROVE  MaxCredits \in Nat /\ \A u \in ChargedUsages : CreditsFor(u) =< MaxCredits
<1> DEFINE S == {0} \cup {CreditsFor(u) : u \in ChargedUsages}
<1>1. PICK n \in Nat : \A u \in ChargedUsages : CreditsFor(u) =< n
  BY DEF Affordable
<1>2. S \in SUBSET Nat /\ 0 \in S /\ \A x \in S : x =< n
  <2>1. \A u \in ChargedUsages : CreditsFor(u) \in Nat
    BY ChargeNat
  <2>q. QED  BY <1>1, <2>1
<1>3. \A u \in ChargedUsages : CreditsFor(u) \in S
  OBVIOUS
<1>m. MaxCredits = Max(S)
  BY DEF MaxCredits
<1> HIDE DEF S
<1> DEFINE T == {n - x : x \in S}
<1>4. T \in SUBSET Nat /\ T # {}
  <2>1. \A x \in S : n - x \in Nat
    BY <1>2
  <2>q. QED  BY <1>2, <2>1
<1>5. PICK k \in T : \A y \in T : k =< y
  <2> HIDE DEF T
  <2>q. QED  BY <1>4, LeastMember
<1>6. PICK m \in S : k = n - m
  BY <1>5
<1>7. \A y \in S : m >= y
  <2>1. TAKE y \in S
  <2>2. k =< n - y
    BY <1>5
  <2>3. y \in Nat /\ m \in Nat
    BY <1>2
  <2>q. QED  BY <1>6, <2>2, <2>3
<1>8. Max(S) \in S /\ \A y \in S : Max(S) >= y
  BY <1>7 DEF Max
<1>9. \A y \in S : y \in Nat
  BY <1>2
<1>q. QED  BY <1>3, <1>m, <1>8, <1>9

\* Products that the balance needs.
LEMMA Times ==
  ASSUME NEW a \in Nat, NEW b \in Nat, NEW m \in Nat
  PROVE  /\ a * m \in Nat
         /\ (a + 1) * m = a * m + m
         /\ a =< b => a * m =< b * m
<1>1. a * m \in Nat /\ (a + 1) * m = a * m + m
  OBVIOUS
<1>2. ASSUME a =< b
      PROVE  a * m =< b * m
  <2>1. PICK k \in Nat : b = a + k
    <3>1. b - a \in Nat /\ b = a + (b - a)
      BY <1>2
    <3>q. QED  BY <3>1
  <2>2. b * m = a * m + k * m /\ k * m \in Nat
    BY <2>1
  <2>q. QED  BY <1>1, <2>2
<1>q. QED  BY <1>1, <1>2

\* A window's sum is a number, and no larger one for an earlier time.
LEMMA CountedSums ==
  ASSUME TypeOK, Stored, NEW w \in W, NEW now \in Nat
  PROVE  /\ IsFiniteSet(Counted(w, now)) /\ Counted(w, now) \in SUBSET Debits
         /\ Credits(Counted(w, now)) \in Nat
         /\ \A then \in Nat : then =< now =>
              Credits(Counted(w, now)) =< Credits(Counted(w, then))
<1>1. ASSUME NEW n \in Nat
      PROVE  IsFiniteSet(Counted(w, n)) /\ Counted(w, n) \in SUBSET Debits
  <2>1. Counted(w, n) \in SUBSET store[w] /\ store[w] \in SUBSET Debits /\ IsFiniteSet(store[w])
    BY DEF Counted, TypeOK, Stored
  <2>q. QED  BY <2>1, FS_Subset
<1>2. ASSUME NEW then \in Nat, then =< now
      PROVE  Credits(Counted(w, now)) =< Credits(Counted(w, then))
  <2>1. Counted(w, now) \in SUBSET Counted(w, then)
    <3>1. \A e \in store[w] : e.at \in Nat
      BY DEF TypeOK, Debits
    <3>2. Windows[w].size \in Nat
      BY WindowsNumbered
    <3>q. QED  BY <1>2, <3>1, <3>2 DEF Counted, Cutoff
  <2>q. QED  BY <1>1, <2>1, CreditsGrow
<1>q. QED  BY <1>1, <1>2, CreditsNat

\* A cap that is checked is a number above zero.
LEMMA CapNat ==
  ASSUME NEW w \in Capped
  PROVE  w \in W /\ w \in Nat /\ Windows[w].cap \in Nat /\ Windows[w].cap > 0
BY WindowsNumbered DEF Capped

\* Who may debit is at work.
LEMMA DebtorsAtWork ==
  ASSUME NEW w \in W
  PROVE  Debtors(w) \subseteq InFlight
BY DEF Debtors, Owes, InFlight, Steps, Recording

\* A step that takes nobody on but one within the limit, and after which the
\* request owes a window only what it did, or what the window has room for.
LEMMA QuietBudget ==
  ASSUME BudgetInv, Affordable, NEW r \in Requests, NEW q, Typed(q), Become(r, q), Local(q),
         req[r].pc \in Steps \/ Cardinality(InFlight) < MaxInFlight,
         r \in unchecked => q.pc \notin Checking \cup {"new"},
         UNCHANGED <<clock, unchecked>>, store' \in [W -> SUBSET Debits],
         \A w \in W : store'[w] \subseteq store[w],
         written' \in [W -> SUBSET Debits], expiry' \in [W -> Nat \cup {Never}],
         \A w \in Capped : Owes(q, w) =>
           Owes(req[r], w) \/ Credits(Counted(w, clock)) < Windows[w].cap
  PROVE  BudgetInv'
<1> USE DEF BudgetInv
<1>0. /\ req' = [s \in Requests |-> req'[s]]
      /\ req'[r] = q /\ \A s \in Requests \ {r} : req'[s] = req[s]
      /\ \A s \in Requests : Typed(req'[s])
  BY Moved
<1>1. TypeOK'
  BY <1>0 DEF TypeOK, Typed
<1>2. \A s \in Requests : Local(req[s])'
  <2>1. TAKE s \in Requests
  <2>2. CASE s = r
    BY <1>0, <2>2 DEF Local
  <2>3. CASE s # r
    BY <1>0, <2>3 DEF Local
  <2>q. QED  BY <2>2, <2>3
<1>3. IsFiniteSet(InFlight') /\ Cardinality(InFlight') =< MaxInFlight
  <2>1. CASE req[r].pc \in Steps
    <3>1. InFlight' \in SUBSET InFlight
      BY <1>0, <2>1 DEF InFlight
    <3>2. IsFiniteSet(InFlight') /\ Cardinality(InFlight') =< Cardinality(InFlight)
      BY <3>1, FS_Subset DEF Counters
    <3>3. Cardinality(InFlight') \in Nat /\ Cardinality(InFlight) \in Nat /\ MaxInFlight \in Nat
      BY <3>2, FS_CardinalityType, MeteringAssumption DEF Counters, MeteringAssumption
    <3>q. QED  BY <3>2, <3>3 DEF Counters
  <2>2. CASE Cardinality(InFlight) < MaxInFlight
    <3>1. InFlight' \in SUBSET (InFlight \cup {r})
      BY <1>0 DEF InFlight
    <3>2. /\ IsFiniteSet(InFlight \cup {r})
          /\ Cardinality(InFlight \cup {r}) \in {Cardinality(InFlight), Cardinality(InFlight) + 1}
      BY FS_AddElement DEF Counters
    <3>3. IsFiniteSet(InFlight') /\ Cardinality(InFlight') =< Cardinality(InFlight \cup {r})
      BY <3>1, <3>2, FS_Subset
    <3>4. Cardinality(InFlight') \in Nat /\ Cardinality(InFlight) \in Nat /\ MaxInFlight \in Nat
      BY <3>3, FS_CardinalityType, MeteringAssumption DEF Counters, MeteringAssumption
    <3>q. QED  BY <2>2, <3>2, <3>3, <3>4
  <2>q. QED  BY <2>1, <2>2
<1>4. Counters'
  <2>1. \A s \in unchecked : s \in Requests /\ req'[s].pc \notin Checking \cup {"new"}
    <3>1. TAKE s \in unchecked
    <3>2. s \in Requests /\ req[s].pc \notin Checking \cup {"new"}
      BY DEF Counters
    <3>3. CASE s = r
      BY <1>0, <3>2, <3>3
    <3>4. CASE s # r
      BY <1>0, <3>2, <3>4
    <3>q. QED  BY <3>3, <3>4
  <2>q. QED  BY <1>3, <2>1 DEF Counters
<1>5. Stored'
  BY FS_Subset DEF Stored
<1>6. ASSUME NEW w \in Capped
      PROVE  Balanced(w)'
  <2>1. w \in W /\ Windows[w].cap \in Nat /\ MaxCredits \in Nat /\ MaxInFlight \in Nat /\ clock \in Nat
    BY CapNat, DearestCharge, MeteringAssumption DEF MeteringAssumption, TypeOK
  <2>2. PICK m \in Nat : m = MaxCredits
    BY <2>1
  <2>3. PICK u \in Nat : u = Cardinality(unchecked)
    BY FS_CardinalityType DEF Counters
  <2>4. PICK c \in Nat : c = Credits(Counted(w, clock))
    BY <2>1, CountedSums
  <2>5. PICK k \in Nat : k = Credits(Counted(w, clock)')
    <3>1. IsFiniteSet(Counted(w, clock)') /\ Counted(w, clock)' \in SUBSET Debits
      <4>1. Counted(w, clock)' \in SUBSET store'[w]
        BY DEF Counted
      <4>q. QED  BY <1>5, <2>1, <4>1, FS_Subset DEF Stored
    <3>q. QED  BY <3>1, CreditsNat
  <2>6. k =< c
    <3>1. Counted(w, clock)' \in SUBSET Counted(w, clock)
      BY <2>1 DEF Counted, Cutoff
    <3>2. IsFiniteSet(Counted(w, clock)) /\ Counted(w, clock) \in SUBSET Debits
      BY <2>1, CountedSums
    <3>q. QED  BY <2>4, <2>5, <3>1, <3>2, CreditsGrow
  <2>7. Balanced(w)' <=> k + Cardinality(Debtors(w)') * m < Windows[w].cap + (MaxInFlight + u) * m
    BY <2>2, <2>3, <2>5 DEF Balanced
  <2>8. CASE Owes(q, w) => Owes(req[r], w)
    <3>1. Debtors(w)' \in SUBSET Debtors(w)
      <4>1. \A s \in Requests : Owes(req'[s], w) => Owes(req[s], w)
        BY <1>0, <2>8
      <4>q. QED  BY <4>1 DEF Debtors
    <3>2. IsFiniteSet(Debtors(w))
      BY <2>1, DebtorsAtWork, FS_Subset DEF Counters
    <3>3. /\ Cardinality(Debtors(w)') \in Nat /\ Cardinality(Debtors(w)) \in Nat
          /\ Cardinality(Debtors(w)') =< Cardinality(Debtors(w))
      BY <3>1, <3>2, FS_Subset, FS_CardinalityType
    <3>4. PICK d \in Nat, e \in Nat : d = Cardinality(Debtors(w)) /\ e = Cardinality(Debtors(w)')
      BY <3>3
    <3>5. c + d * m < Windows[w].cap + (MaxInFlight + u) * m
      BY <2>2, <2>3, <2>4, <3>4 DEF Balanced
    <3>6. e * m =< d * m /\ e * m \in Nat /\ d * m \in Nat
      BY <3>3, <3>4, Times
    <3>7. PICK x \in Nat : x = (MaxInFlight + u) * m
      BY <2>1
    <3>8. k + e * m < Windows[w].cap + x
      BY <2>1, <2>6, <3>5, <3>6, <3>7
    <3>q. QED  BY <2>7, <3>4, <3>7, <3>8
  <2>9. CASE c < Windows[w].cap
    <3>1. Debtors(w)' \in SUBSET InFlight'
      <4>1. \A s \in Requests : Owes(req'[s], w) => req'[s].pc \in Steps
        BY DEF Owes, Steps, Recording
      <4>q. QED  BY <4>1 DEF Debtors, InFlight
    <3>2. /\ Cardinality(Debtors(w)') \in Nat /\ Cardinality(InFlight') \in Nat
          /\ Cardinality(Debtors(w)') =< Cardinality(InFlight')
      BY <1>3, <3>1, FS_Subset, FS_CardinalityType
    <3>3. PICK e \in Nat : e = Cardinality(Debtors(w)')
      BY <3>2
    <3>4. PICK n \in Nat : n = MaxInFlight + u
      BY <2>1
    <3>5. e =< n
      BY <1>3, <2>1, <3>2, <3>3, <3>4
    <3>6. e * m =< n * m /\ e * m \in Nat /\ n * m \in Nat
      BY <3>5, Times
    <3>7. k + e * m < Windows[w].cap + n * m
      BY <2>1, <2>6, <2>9, <3>6
    <3>q. QED  BY <2>7, <3>3, <3>4, <3>7
  <2>q. QED  BY <2>4, <2>8, <2>9
<1>q. QED  BY <1>1, <1>2, <1>4, <1>5, <1>6 DEF Capped

\* What a precheck goes on to when it is through with the windows before w.
LEMMA CheckGoesOn ==
  ASSUME NEW q, Typed(q), NEW w \in Nat
  PROVE  LET next == CheckFrom(q, w) IN
         /\ next.pc = "trim" =>
              /\ next.w \in Capped /\ next.w >= w /\ next.resets = q.resets /\ next.now = q.now
              /\ \A v \in Capped : v >= w => v >= next.w
         /\ next.pc = "forward" => q.resets = {} /\ \A v \in Capped : v < w
         /\ next.pc = "refused" => next.resets = q.resets /\ next.now = q.now /\ q.resets # {}
<1> DEFINE left == {v \in Capped : v >= w}
<1>1. CASE left # {}
  <2>0. left \in SUBSET W
    BY DEF Capped
  <2>1. PICK v \in left : v = Min(left) /\ \A u \in left : v =< u
    <3> HIDE DEF left
    <3>q. QED  BY <1>1, <2>0, NextWindow
  <2>2. CheckFrom(q, w) = [q EXCEPT !.pc = "trim", !.w = v]
    BY <1>1, <2>1 DEF CheckFrom
  <2>3. \A u \in Capped : u >= w => u >= v
    <3>1. TAKE u \in Capped
    <3>2. u \in Nat /\ v \in Nat
      BY CapNat, <2>1
    <3>q. QED  BY <2>1, <3>2
  <2>4. /\ CheckFrom(q, w).pc = "trim" /\ CheckFrom(q, w).w = v
        /\ CheckFrom(q, w).resets = q.resets /\ CheckFrom(q, w).now = q.now
    BY <2>2 DEF Typed
  <2>q. QED  BY <2>1, <2>3, <2>4
<1>2. CASE left = {} /\ q.resets = {}
  <2>1. CheckFrom(q, w).pc = "forward"
    BY <1>2 DEF CheckFrom, Bare
  <2>2. \A v \in Capped : v < w
    <3>1. TAKE v \in Capped
    <3>2. v \in Nat /\ ~ (v >= w)
      BY CapNat, <1>2
    <3>q. QED  BY <3>2
  <2>q. QED  BY <1>2, <2>1, <2>2
<1>3. CASE left = {} /\ q.resets # {}
  <2>1. CheckFrom(q, w) = [q EXCEPT !.pc = "refused"]
    BY <1>3 DEF CheckFrom
  <2>q. QED  BY <1>3, <2>1 DEF Typed
<1>q. QED  BY <1>1, <1>2, <1>3

\* A request that is only starting owes nothing.
LEMMA BeginBudget ==
  ASSUME BudgetInv, Affordable, NEW r \in Requests, Begin(r)
  PROVE  BudgetInv'
<1> USE DEF BudgetInv
<1> DEFINE q == [Idle EXCEPT !.now = clock]
           next == CheckFrom(q, 1)
<1>1. Typed(q) /\ q.now = clock /\ q.resets = {} /\ clock \in Nat
  BY DEF Typed, Idle, Bare, TypeOK
<1>2. /\ Typed(next) /\ next.now \in {0, clock}
      /\ next.pc \in {"trim", "forward", "refused"} /\ (next.pc = "trim" => next.w \in W)
  BY <1>1, NextCheck
<1>3. /\ next.pc = "trim" => \A v \in Capped : v >= 1 => v >= next.w
      /\ next.pc = "forward" => \A v \in Capped : v < 1
      /\ next.pc # "refused"
  <2>1. 1 \in Nat
    OBVIOUS
  <2> HIDE DEF q
  <2>q. QED  BY <1>1, <2>1, CheckGoesOn
<1>4. Become(r, next) /\ UNCHANGED <<clock, store, expiry, written, unchecked>>
      /\ req[r].pc = "new" /\ Cardinality(InFlight) < MaxInFlight
  BY DEF Begin, CanBegin
<1> HIDE DEF next
<1>5. Local(next)
  BY <1>1, <1>2 DEF Local, Recording, Checking
<1>6. r \notin unchecked
  BY <1>4 DEF Counters
<1>7. \A v \in Capped : ~ Owes(next, v)
  <2>1. TAKE v \in Capped
  <2>2. v \in Nat /\ v >= 1
    BY CapNat, WindowsNumbered
  <2>3. CASE next.pc = "trim"
    <3>1. next.w \in Nat
      BY <1>2 DEF Typed
    <3>q. QED  BY <1>3, <2>2, <2>3, <3>1 DEF Owes
  <2>4. CASE next.pc = "forward"
    BY <1>3, <2>2, <2>4
  <2>q. QED  BY <1>2, <1>3, <2>3, <2>4
<1>q. QED  BY <1>2, <1>4, <1>5, <1>6, <1>7, QuietBudget DEF TypeOK

\* A trim takes from the window only.
LEMMA TrimBudget ==
  ASSUME BudgetInv, Affordable, NEW r \in Requests, Trim(r)
  PROVE  BudgetInv'
<1> USE DEF BudgetInv
<1> DEFINE q == [req[r] EXCEPT !.pc = "sum"]
           w == req[r].w
           kept == Counted(w, req[r].now)
<1>1. Typed(req[r]) /\ Local(req[r]) /\ req[r].pc = "trim" /\ w \in W
  BY DEF TypeOK, Local, Trim, At, Checking
<1>2. /\ Typed(q) /\ Local(q) /\ q.pc = "sum" /\ \A v \in W : Owes(q, v) => Owes(req[r], v)
  BY <1>1 DEF Typed, Local, Steps, Checking, Recording, Owes
<1>3. Keep(w, kept) /\ Become(r, q) /\ UNCHANGED <<clock, written, unchecked>>
  BY DEF Trim
<1>4. kept \in SUBSET store[w]
  BY DEF Counted
<1> HIDE DEF q, kept
<1>5. /\ store' \in [W -> SUBSET Debits] /\ \A v \in W : store'[v] \subseteq store[v]
      /\ expiry' \in [W -> Nat \cup {Never}]
  BY <1>1, <1>3, <1>4, KeepTakesAway
<1>7. r \notin unchecked /\ req[r].pc \in Steps
  BY <1>1 DEF Counters, Checking, Steps
<1>8. \A v \in Capped : Owes(q, v) => Owes(req[r], v)
  BY <1>2 DEF Capped
<1>9. written' \in [W -> SUBSET Debits]
  BY <1>3 DEF TypeOK
<1>q. QED  BY <1>2, <1>3, <1>5, <1>7, <1>8, <1>9, QuietBudget

\* A request goes on past a window that has room for a charge of everyone.
LEMMA SumBudget ==
  ASSUME BudgetInv, Affordable, NEW r \in Requests, Sum(r)
  PROVE  BudgetInv'
<1> USE DEF BudgetInv
<1> DEFINE w == req[r].w
           reset == [window |-> w, at |-> Oldest(w, req[r].now) + Windows[w].size]
           full == Total(w, req[r].now) >= Windows[w].cap
<1>1. /\ Typed(req[r]) /\ Local(req[r]) /\ req[r].pc = "sum" /\ w \in W
      /\ w \in Nat /\ req[r].now \in Nat /\ clock \in Nat /\ req[r].now =< clock
  BY WindowsNumbered DEF TypeOK, Local, Typed, Sum, At, Checking
<1>2. PICK n \in Nat : n = w + 1
  BY <1>1
<1>3. PICK q : /\ q = IF full THEN [req[r] EXCEPT !.resets = @ \cup {reset}] ELSE req[r]
               /\ Become(r, CheckFrom(q, n))
               /\ UNCHANGED <<clock, store, expiry, written, unchecked>>
  BY <1>2 DEF Sum
<1> HIDE DEF reset, full
<1>4. Typed(q) /\ q.now = req[r].now /\ (q.resets = {} => req[r].resets = {} /\ ~ full)
  <2>1. CASE full
    BY <1>1, <1>3, <2>1 DEF Typed
  <2>2. CASE ~ full
    BY <1>1, <1>3, <2>2
  <2>q. QED  BY <2>1, <2>2
<1>5. PICK next : next = CheckFrom(q, n)
  OBVIOUS
<1>6. /\ Typed(next) /\ next.now \in {0, req[r].now}
      /\ next.pc \in {"trim", "forward", "refused"} /\ (next.pc = "trim" => next.w \in W)
  BY <1>4, <1>5, NextCheck
<1>7. /\ next.pc = "trim" => /\ next.resets = q.resets
                             /\ \A v \in Capped : v >= n => v >= next.w
      /\ next.pc = "forward" => q.resets = {} /\ \A v \in Capped : v < n
  BY <1>4, <1>5, CheckGoesOn
<1>8. Local(next)
  BY <1>1, <1>6 DEF Local, Recording, Checking
<1>9. r \notin unchecked /\ req[r].pc \in Steps
  BY <1>1 DEF Counters, Checking, Steps
<1>10. ASSUME NEW v \in Capped, Owes(next, v)
       PROVE  Owes(req[r], v) \/ Credits(Counted(v, clock)) < Windows[v].cap
  <2>1. v \in Nat /\ v \in W /\ Windows[v].cap \in Nat
    BY CapNat
  <2>2. req[r].resets = {} /\ ~ full /\ v < n
    <3>1. CASE next.pc = "trim"
      <4>1. next.resets = {} /\ next.w > v /\ next.w \in Nat
        BY <1>6, <1>10, <3>1 DEF Owes, Typed
      <4>2. ~ (v >= n)
        BY <1>7, <2>1, <3>1, <4>1
      <4>q. QED  BY <1>4, <1>7, <2>1, <3>1, <4>1, <4>2
    <3>2. CASE next.pc = "forward"
      BY <1>4, <1>7, <3>2
    <3>3. CASE next.pc = "refused"
      BY <1>10, <3>3 DEF Owes, Checking
    <3>q. QED  BY <1>6, <3>1, <3>2, <3>3
  <2>3. CASE v < w
    BY <1>1, <2>2, <2>3 DEF Owes, Checking
  <2>4. CASE v = w
    <3>1. Credits(Counted(w, clock)) =< Credits(Counted(w, req[r].now))
      BY <1>1, CountedSums
    <3>2. Credits(Counted(w, clock)) \in Nat /\ Credits(Counted(w, req[r].now)) \in Nat
      BY <1>1, CountedSums
    <3>3. ~ (Credits(Counted(w, req[r].now)) >= Windows[w].cap)
      BY <2>2 DEF full, Total
    <3>q. QED  BY <2>1, <2>4, <3>1, <3>2, <3>3
  <2>q. QED  BY <1>1, <1>2, <2>1, <2>2, <2>3, <2>4
<1>q. QED  BY <1>3, <1>5, <1>6, <1>8, <1>9, <1>10, QuietBudget DEF TypeOK

\* Whoever is done, refused or gone owes nothing.
LEMMA EndBudget ==
  ASSUME BudgetInv, Affordable, NEW r \in Requests,
         \/ UpstreamFails(r) \/ Abandon(r)
         \/ DebitFails(r) /\ UNCHANGED <<store, written>>
  PROVE  BudgetInv'
<1> USE DEF BudgetInv
<1>1. PICK here \in {"done", "dead"} : Become(r, Bare(here))
  BY DEF UpstreamFails, DebitFails, Abandon
<1>2. req[r].pc \in Steps /\ UNCHANGED <<clock, store, expiry, written, unchecked>>
  BY DEF UpstreamFails, DebitFails, Abandon, At, Steps, Recording
<1>3. PICK q : q = Bare(here)
  OBVIOUS
<1>4. /\ Typed(q) /\ Local(q) /\ q.pc \notin Checking \cup {"new"}
      /\ \A v \in Capped : ~ Owes(q, v)
  BY <1>3 DEF Bare, Typed, Local, Over, Steps, Checking, Recording, Owes, TypeOK
<1>q. QED  BY <1>1, <1>2, <1>3, <1>4, QuietBudget DEF TypeOK

\* What is owed is at most the dearest charge.
LEMMA AnswerBudget ==
  ASSUME BudgetInv, Affordable, NEW r \in Requests, NEW u \in ChargedUsages, Answer(r, u)
  PROVE  BudgetInv'
<1> USE DEF BudgetInv
<1> DEFINE q == [req[r] EXCEPT !.now = clock, !.credits = CreditsFor(u)]
<1>1. Typed(req[r]) /\ req[r].pc = "forward" /\ clock \in Nat
  BY DEF TypeOK, Answer, At
<1>2. Typed(q) /\ q.now = clock /\ q.credits = CreditsFor(u)
  BY <1>1, ChargeNat DEF Typed
<1>3. /\ Become(r, IF q.credits > 0 THEN DebitFrom(q, 1) ELSE Bare("done"))
      /\ UNCHANGED <<clock, store, expiry, written, unchecked>>
  BY DEF Answer
<1> HIDE DEF q
<1>4. /\ Typed(DebitFrom(q, 1))
      /\ 1 \in W => DebitFrom(q, 1) = [q EXCEPT !.pc = "debit", !.w = 1]
      /\ 1 \notin W => DebitFrom(q, 1) = Bare("done")
  BY <1>2, NextDebit
<1>5. PICK next : /\ Become(r, next)
                  /\ \/ 1 \in W /\ next = [q EXCEPT !.pc = "debit", !.w = 1]
                     \/ next = Bare("done")
  BY <1>3, <1>4
<1>6. /\ Typed(next) /\ Local(next) /\ next.pc \notin Checking \cup {"new"}
  <2>1. CASE 1 \in W /\ next = [q EXCEPT !.pc = "debit", !.w = 1]
    <3>1. Typed(next)
      BY <1>2, <2>1 DEF Typed, Steps, Recording
    <3>2. next.pc = "debit" /\ next.w = 1 /\ next.now = clock /\ next.credits = CreditsFor(u)
      BY <1>2, <2>1 DEF Typed
    <3>q. QED  BY <1>1, <2>1, <3>1, <3>2, DearestCharge DEF Local, Checking, Recording
  <2>2. CASE next = Bare("done")
    BY <1>1, <2>2 DEF Bare, Typed, Local, Over, Checking, Recording
  <2>q. QED  BY <1>5, <2>1, <2>2
<1>7. \A v \in Capped : Owes(req[r], v)
  BY <1>1 DEF Owes
<1>8. req[r].pc \in Steps
  BY <1>1 DEF Steps
<1>q. QED  BY <1>3, <1>5, <1>6, <1>7, <1>8, QuietBudget DEF TypeOK

\* The next window was owed before.
LEMMA ExtendBudget ==
  ASSUME BudgetInv, Affordable, NEW r \in Requests, Extend(r)
  PROVE  BudgetInv'
<1> USE DEF BudgetInv
<1> DEFINE w == req[r].w
<1>1. /\ Typed(req[r]) /\ Local(req[r]) /\ w \in W /\ req[r].pc = "extend"
      /\ clock \in Nat /\ w \in Nat
  BY WindowsNumbered DEF TypeOK, Local, Extend, At, Recording
<1>2. PICK n \in Nat : n = w + 1
  BY <1>1
<1>3. PICK next : next = DebitFrom(req[r], n)
  OBVIOUS
<1>4. Become(r, next) /\ UNCHANGED <<clock, store, written, unchecked>>
  BY <1>2, <1>3 DEF Extend
<1>5. /\ Typed(next)
      /\ n \in W => next = [req[r] EXCEPT !.pc = "debit", !.w = n]
      /\ n \notin W => next = Bare("done")
  BY <1>1, <1>3, NextDebit
<1>6. /\ Local(next) /\ next.pc \notin Checking \cup {"new"}
      /\ \A v \in Capped : Owes(next, v) => Owes(req[r], v)
  <2>1. CASE n \in W
    <3>1. next.pc = "debit" /\ next.w = n /\ next.now = req[r].now /\ next.credits = req[r].credits
      BY <1>1, <1>5, <2>1 DEF Typed
    <3>2. Local(next) /\ next.pc \notin Checking \cup {"new"}
      BY <1>1, <2>1, <3>1 DEF Local, Checking, Recording
    <3>3. ASSUME NEW v \in Capped, Owes(next, v)
          PROVE  Owes(req[r], v)
      <4>1. v \in Nat /\ n =< v
        BY <3>1, <3>3, CapNat DEF Owes, Checking
      <4>q. QED  BY <1>1, <1>2, <4>1 DEF Owes
    <3>q. QED  BY <3>2, <3>3
  <2>2. CASE n \notin W
    BY <1>1, <1>5, <2>2 DEF Bare, Local, Owes, Checking, Recording
  <2>q. QED  BY <2>1, <2>2
<1>7. expiry' \in [W -> Nat \cup {Never}]
  <2>1. clock + Windows[w].size + Grace \in Nat
    <3>1. Windows[w].size \in Nat /\ Grace \in Nat
      BY <1>1, WindowsNumbered, MeteringAssumption DEF MeteringAssumption
    <3>q. QED  BY <1>1, <3>1
  <2>2. \/ expiry' = [expiry EXCEPT ![w] = clock + Windows[w].size + Grace]
        \/ expiry' = expiry
    BY DEF Extend
  <2>q. QED  BY <1>1, <2>1, <2>2 DEF TypeOK
<1>8. req[r].pc \in Steps
  BY <1>1 DEF Steps, Recording
<1>q. QED  BY <1>4, <1>5, <1>6, <1>7, <1>8, QuietBudget DEF TypeOK

\* A debit costs the window what its request owed it, whatever Redis says of it.
LEMMA DebitBudget ==
  ASSUME BudgetInv, Affordable, NEW r \in Requests,
         Debit(r) \/ (DebitFails(r) /\ Take(req[r].w, Owed(r)))
  PROVE  BudgetInv'
<1> USE DEF BudgetInv
<1> DEFINE w == req[r].w
           e == Owed(r)
<1>1. /\ Typed(req[r]) /\ Local(req[r]) /\ w \in W /\ req[r].pc = "debit" /\ clock \in Nat
  BY DEF TypeOK, Local, Debit, DebitFails, At, Recording
<1>2. PICK q : /\ Typed(q) /\ Local(q) /\ Become(r, q)
               /\ (q.pc = "extend" /\ q.w = w) \/ q.pc = "done"
  <2>1. CASE Debit(r)
    <3>1. PICK p : p = [req[r] EXCEPT !.pc = "extend"]
      OBVIOUS
    <3>2. Typed(p) /\ Local(p) /\ p.pc = "extend" /\ p.w = w
      BY <1>1, <3>1 DEF Typed, Local, Steps, Recording, Checking
    <3>q. QED  BY <2>1, <3>1, <3>2 DEF Debit
  <2>2. CASE DebitFails(r)
    <3>1. PICK p : p = Bare("done")
      OBVIOUS
    <3>2. Typed(p) /\ Local(p) /\ p.pc = "done"
      BY <1>1, <3>1 DEF Bare, Typed, Local, Over, Recording, Checking
    <3>q. QED  BY <2>2, <3>1, <3>2 DEF DebitFails
  <2>q. QED  BY <2>1, <2>2
<1>3. /\ store' = [store EXCEPT ![w] = @ \cup {e}]
      /\ written' = [written EXCEPT ![w] = @ \cup {e}]
      /\ UNCHANGED <<clock, expiry, unchecked>>
  BY DEF Debit, DebitFails, Take
<1>4. e \in Debits /\ e.credits = req[r].credits /\ e.credits =< MaxCredits
  BY <1>1 DEF Owed, Debits, Typed, Local, Recording
<1> HIDE DEF e
<1>0. /\ req' = [s \in Requests |-> req'[s]]
      /\ req'[r] = q /\ \A s \in Requests \ {r} : req'[s] = req[s]
      /\ \A s \in Requests : Typed(req'[s])
  BY <1>2, Moved
<1>5. /\ store' \in [W -> SUBSET Debits] /\ written' \in [W -> SUBSET Debits]
      /\ store'[w] = store[w] \cup {e} /\ \A v \in W \ {w} : store'[v] = store[v]
  BY <1>1, <1>3, <1>4 DEF TypeOK
<1>6. TypeOK'
  BY <1>0, <1>3, <1>5 DEF TypeOK, Typed
<1>7. \A s \in Requests : Local(req[s])'
  <2>1. TAKE s \in Requests
  <2>2. CASE s = r
    BY <1>0, <1>2, <1>3, <2>2 DEF Local
  <2>3. CASE s # r
    BY <1>0, <1>3, <2>3 DEF Local
  <2>q. QED  BY <2>2, <2>3
<1>8. Counters'
  <2>1. IsFiniteSet(InFlight') /\ Cardinality(InFlight') =< MaxInFlight
    <3>1. \A s \in Requests : req'[s].pc \in Steps => req[s].pc \in Steps
      BY <1>0, <1>1, <1>2 DEF Steps, Recording
    <3>2. InFlight' \in SUBSET InFlight
      BY <3>1 DEF InFlight
    <3>3. IsFiniteSet(InFlight') /\ Cardinality(InFlight') =< Cardinality(InFlight)
      BY <3>2, FS_Subset DEF Counters
    <3>4. Cardinality(InFlight') \in Nat /\ Cardinality(InFlight) \in Nat /\ MaxInFlight \in Nat
      BY <3>3, FS_CardinalityType, MeteringAssumption DEF Counters, MeteringAssumption
    <3>q. QED  BY <3>3, <3>4 DEF Counters
  <2>2. \A s \in unchecked : s \in Requests /\ req'[s].pc \notin Checking \cup {"new"}
    <3>1. TAKE s \in unchecked
    <3>2. s \in Requests /\ req[s].pc \notin Checking \cup {"new"}
      BY DEF Counters
    <3>3. CASE s = r
      BY <1>0, <1>2, <3>2, <3>3 DEF Checking
    <3>4. CASE s # r
      BY <1>0, <3>2, <3>4
    <3>q. QED  BY <3>3, <3>4
  <2>q. QED  BY <1>3, <2>1, <2>2 DEF Counters
<1>9. Stored'
  <2>1. IsFiniteSet(store[w] \cup {e})
    BY <1>1, FS_AddElement DEF Stored
  <2>q. QED  BY <1>5, <2>1 DEF Stored
<1>10. ASSUME NEW v \in Capped
       PROVE  Balanced(v)'
  <2>1. v \in W /\ v \in Nat /\ Windows[v].cap \in Nat /\ MaxCredits \in Nat /\ MaxInFlight \in Nat
    BY CapNat, DearestCharge, MeteringAssumption DEF MeteringAssumption
  <2>2. PICK m \in Nat : m = MaxCredits
    BY <2>1
  <2>3. PICK x \in Nat : x = Windows[v].cap + (MaxInFlight + Cardinality(unchecked)) * m
    <3>1. PICK u \in Nat : u = MaxInFlight + Cardinality(unchecked)
      BY <2>1, FS_CardinalityType DEF Counters
    <3>2. u * m \in Nat
      BY Times
    <3>q. QED  BY <2>1, <3>1, <3>2
  <2>4. PICK c \in Nat : c = Credits(Counted(v, clock))
    BY <1>1, <2>1, CountedSums
  <2>5. IsFiniteSet(Debtors(v))
    BY <2>1, DebtorsAtWork, FS_Subset DEF Counters
  <2>6. PICK d \in Nat : d = Cardinality(Debtors(v))
    BY <2>5, FS_CardinalityType
  <2>7. c + d * m < x
    BY <2>2, <2>3, <2>4, <2>6 DEF Balanced
  <2>8. Balanced(v)' <=> Credits(Counted(v, clock)') + Cardinality(Debtors(v)') * m < x
    BY <1>3, <2>2, <2>3 DEF Balanced
  <2>9. \A s \in Requests : Owes(req'[s], v) => Owes(req[s], v) /\ ~ (s = r /\ v = w)
    <3>1. TAKE s \in Requests
    <3>2. CASE s = r
      <4>1. Owes(req'[r], v) => w < v
        BY <1>0, <1>2 DEF Owes, Checking
      <4>2. Owes(req[r], v) <=> w =< v
        BY <1>1 DEF Owes, Checking
      <4>3. w \in Nat
        BY <1>1, WindowsNumbered
      <4>q. QED  BY <2>1, <3>2, <4>1, <4>2, <4>3
    <3>3. CASE s # r
      BY <1>0, <3>3
    <3>q. QED  BY <3>2, <3>3
  <2>10. CASE v # w
    <3>1. Debtors(v)' \in SUBSET Debtors(v)
      BY <2>9, <2>10 DEF Debtors
    <3>2. Counted(v, clock)' = Counted(v, clock)
      BY <1>3, <1>5, <2>1, <2>10 DEF Counted, Cutoff
    <3>3. PICK k \in Nat : k = Cardinality(Debtors(v)') /\ k =< d
      BY <2>5, <2>6, <3>1, FS_Subset, FS_CardinalityType
    <3>4. k * m =< d * m /\ k * m \in Nat /\ d * m \in Nat
      BY <3>3, Times
    <3>5. c + k * m < x
      BY <2>7, <3>4
    <3>q. QED  BY <2>4, <2>8, <3>2, <3>3, <3>5
  <2>11. CASE v = w
    <3>1. r \in Debtors(v) /\ Debtors(v)' \in SUBSET (Debtors(v) \ {r})
      <4>1. w =< v
        BY <2>1, <2>11
      <4>2. Owes(req[r], v)
        BY <1>1, <4>1 DEF Owes
      <4>q. QED  BY <2>9, <2>11, <4>2 DEF Debtors
    <3>2. PICK k \in Nat : k = Cardinality(Debtors(v)') /\ k + 1 =< d
      <4>1. Cardinality(Debtors(v) \ {r}) = d - 1 /\ IsFiniteSet(Debtors(v) \ {r})
        BY <2>5, <2>6, <3>1, FS_RemoveElement
      <4>2. /\ IsFiniteSet(Debtors(v)')
            /\ Cardinality(Debtors(v)') =< Cardinality(Debtors(v) \ {r})
        BY <3>1, <4>1, FS_Subset
      <4>3. Cardinality(Debtors(v)') \in Nat
        BY <4>2, FS_CardinalityType
      <4>q. QED  BY <2>6, <4>1, <4>2, <4>3
    <3>3. Counted(v, clock)' \in SUBSET (Counted(v, clock) \cup {e})
      BY <1>3, <1>5, <2>11 DEF Counted, Cutoff
    <3>4. /\ IsFiniteSet(Counted(v, clock) \cup {e}) /\ Counted(v, clock) \cup {e} \in SUBSET Debits
          /\ Credits(Counted(v, clock) \cup {e}) =< c + e.credits
      <4>1. IsFiniteSet(Counted(v, clock)) /\ Counted(v, clock) \in SUBSET Debits
        BY <1>1, <2>1, CountedSums
      <4>q. QED  BY <1>4, <2>4, <4>1, CreditsIn
    <3>5. Credits(Counted(v, clock)') =< Credits(Counted(v, clock) \cup {e})
      BY <3>3, <3>4, CreditsGrow
    <3>6. /\ Credits(Counted(v, clock)') \in Nat /\ Credits(Counted(v, clock) \cup {e}) \in Nat
          /\ e.credits \in Nat
      <4>1. IsFiniteSet(Counted(v, clock)') /\ Counted(v, clock)' \in SUBSET Debits
        BY <3>3, <3>4, FS_Subset
      <4>q. QED  BY <1>4, <3>4, <4>1, CreditsNat DEF Debits
    <3>7. PICK y \in Nat : y = Credits(Counted(v, clock)')
      BY <3>6
    <3>8. y =< c + m
      BY <1>4, <2>2, <3>4, <3>5, <3>6, <3>7
    <3>9. k * m + m =< d * m /\ k * m \in Nat /\ d * m \in Nat
      <4>1. PICK n \in Nat : n = k + 1
        OBVIOUS
      <4>2. n * m = k * m + m /\ k * m \in Nat /\ d * m \in Nat
        BY <4>1, Times
      <4>3. n * m =< d * m
        BY <3>2, <4>1, Times
      <4>q. QED  BY <4>2, <4>3
    <3>10. y + k * m < x
      BY <2>7, <3>8, <3>9
    <3>q. QED  BY <2>8, <3>2, <3>7, <3>10
  <2>q. QED  BY <2>10, <2>11
<1>q. QED  BY <1>6, <1>7, <1>8, <1>9, <1>10 DEF Capped

\* A precheck that fails admits one request more than the limits foresee.
LEMMA FailBudget ==
  ASSUME BudgetInv, Affordable, NEW r \in Requests, CheckFails(r)
  PROVE  BudgetInv'
<1> USE DEF BudgetInv
<1>1. /\ req[r].pc \in Checking /\ Become(r, Bare("forward"))
      /\ unchecked' = unchecked \cup {r} /\ UNCHANGED <<clock, written>>
  BY DEF CheckFails
<1>t. /\ store' \in [W -> SUBSET Debits] /\ \A v \in W : store'[v] \subseteq store[v]
      /\ expiry' \in [W -> Nat \cup {Never}]
  <2>1. CASE UNCHANGED <<store, expiry>>
    BY <2>1 DEF TypeOK
  <2>2. CASE Keep(req[r].w, Counted(req[r].w, req[r].now))
    <3>1. req[r].w \in W /\ Counted(req[r].w, req[r].now) \in SUBSET store[req[r].w]
      BY <1>1 DEF Local, Counted
    <3>q. QED  BY <2>2, <3>1, KeepTakesAway
  <2>q. QED  BY <2>1, <2>2 DEF CheckFails
<1>2. PICK q : q = Bare("forward")
  OBVIOUS
<1>3. Typed(q) /\ Local(q) /\ q.pc = "forward"
  BY <1>2 DEF Bare, Typed, Local, Steps, Checking, Recording, TypeOK
<1>0. /\ req' = [s \in Requests |-> req'[s]]
      /\ req'[r] = q /\ \A s \in Requests \ {r} : req'[s] = req[s]
      /\ \A s \in Requests : Typed(req'[s])
  BY <1>1, <1>2, <1>3, Moved
<1>4. TypeOK'
  BY <1>0, <1>1, <1>t DEF TypeOK, Typed
<1>5. \A s \in Requests : Local(req[s])'
  <2>1. TAKE s \in Requests
  <2>2. CASE s = r
    BY <1>0, <1>1, <1>3, <2>2 DEF Local
  <2>3. CASE s # r
    BY <1>0, <1>1, <2>3 DEF Local
  <2>q. QED  BY <2>2, <2>3
<1>6. r \notin unchecked
  BY <1>1 DEF Counters
<1>7. IsFiniteSet(unchecked') /\ Cardinality(unchecked') = Cardinality(unchecked) + 1
      /\ Cardinality(unchecked) \in Nat
  BY <1>1, <1>6, FS_AddElement, FS_CardinalityType DEF Counters
<1>8. Counters'
  <2>1. InFlight' = InFlight
    <3>1. \A s \in Requests : req'[s].pc \in Steps <=> req[s].pc \in Steps
      BY <1>0, <1>1, <1>3 DEF Steps
    <3>q. QED  BY <3>1 DEF InFlight
  <2>2. \A s \in unchecked' : s \in Requests /\ req'[s].pc \notin Checking \cup {"new"}
    <3>1. TAKE s \in unchecked'
    <3>2. CASE s = r
      BY <1>0, <1>3, <3>2 DEF Checking
    <3>3. CASE s # r
      BY <1>0, <1>1, <3>3 DEF Counters
    <3>q. QED  BY <3>2, <3>3
  <2>q. QED  BY <1>7, <2>1, <2>2 DEF Counters
<1>9. Stored'
  BY <1>t, FS_Subset DEF Stored
<1>10. ASSUME NEW v \in Capped
       PROVE  Balanced(v)'
  <2>1. v \in W /\ Windows[v].cap \in Nat /\ MaxCredits \in Nat /\ MaxInFlight \in Nat /\ clock \in Nat
    BY CapNat, DearestCharge, MeteringAssumption DEF MeteringAssumption, TypeOK
  <2>2. PICK m \in Nat : m = MaxCredits
    BY <2>1
  <2>3. PICK u \in Nat : u = MaxInFlight + Cardinality(unchecked)
    BY <1>7, <2>1
  <2>4. PICK c \in Nat : c = Credits(Counted(v, clock))
    BY <2>1, CountedSums
  <2>5. IsFiniteSet(Debtors(v))
    BY <2>1, DebtorsAtWork, FS_Subset DEF Counters
  <2>6. PICK d \in Nat : d = Cardinality(Debtors(v))
    BY <2>5, FS_CardinalityType
  <2>7. c + d * m < Windows[v].cap + u * m
    BY <2>2, <2>3, <2>4, <2>6 DEF Balanced
  <2>8. PICK b \in Nat : b = Credits(Counted(v, clock)') /\ b =< c
    <3>1. Counted(v, clock)' \in SUBSET Counted(v, clock)
      BY <1>1, <1>t, <2>1 DEF Counted, Cutoff
    <3>2. IsFiniteSet(Counted(v, clock)) /\ Counted(v, clock) \in SUBSET Debits
      BY <2>1, CountedSums
    <3>3. IsFiniteSet(Counted(v, clock)') /\ Counted(v, clock)' \in SUBSET Debits
      BY <3>1, <3>2, FS_Subset
    <3>4. Credits(Counted(v, clock)') \in Nat
      BY <3>3, CreditsNat
    <3>q. QED  BY <2>4, <3>1, <3>2, <3>4, CreditsGrow
  <2>9. MaxInFlight + Cardinality(unchecked') = u + 1
    BY <1>7, <2>1, <2>3
  <2>10. Balanced(v)' <=> b + Cardinality(Debtors(v)') * m < Windows[v].cap + (u + 1) * m
    BY <2>2, <2>8, <2>9 DEF Balanced
  <2>11. Debtors(v)' \in SUBSET (Debtors(v) \cup {r})
    <3>1. \A s \in Requests : Owes(req'[s], v) => Owes(req[s], v) \/ s = r
      BY <1>0
    <3>q. QED  BY <3>1 DEF Debtors
  <2>12. PICK k \in Nat : k = Cardinality(Debtors(v)') /\ k =< d + 1
    <3>1. /\ IsFiniteSet(Debtors(v) \cup {r})
          /\ Cardinality(Debtors(v) \cup {r}) \in {d, d + 1}
      BY <2>5, <2>6, FS_AddElement
    <3>2. /\ IsFiniteSet(Debtors(v)')
          /\ Cardinality(Debtors(v)') =< Cardinality(Debtors(v) \cup {r})
      BY <2>11, <3>1, FS_Subset
    <3>3. Cardinality(Debtors(v)') \in Nat
      BY <3>2, FS_CardinalityType
    <3>q. QED  BY <3>1, <3>2, <3>3
  <2>13. /\ k * m =< (d + 1) * m /\ (d + 1) * m = d * m + m /\ (u + 1) * m = u * m + m
         /\ k * m \in Nat /\ d * m \in Nat /\ u * m \in Nat
    <3>1. PICK a \in Nat : a = d + 1
      OBVIOUS
    <3>2. k * m =< a * m
      BY <2>12, <3>1, Times
    <3>q. QED  BY <3>1, <3>2, Times
  <2>14. b + k * m < Windows[v].cap + (u + 1) * m
    BY <2>1, <2>7, <2>8, <2>13
  <2>q. QED  BY <2>10, <2>12, <2>14
<1>q. QED  BY <1>4, <1>5, <1>8, <1>9, <1>10 DEF Capped

\* As time passes windows only forget.
LEMMA TickBudget ==
  ASSUME BudgetInv, Affordable, Tick
  PROVE  BudgetInv'
<1> USE DEF BudgetInv
<1>1. /\ clock \in Nat /\ clock' = clock + 1 /\ clock' \in Nat
      /\ store' = [w \in W |-> IF Expired(w) THEN {} ELSE store[w]]
      /\ expiry' = [w \in W |-> IF Expired(w) THEN Never ELSE expiry[w]]
      /\ UNCHANGED <<req, written, unchecked>>
  BY DEF Tick, TypeOK
<1>2. \A w \in W : store'[w] \in SUBSET store[w]
  BY <1>1
<1>3. TypeOK'
  <2>1. store' \in [W -> SUBSET Debits] /\ expiry' \in [W -> Nat \cup {Never}]
    BY <1>1 DEF TypeOK
  <2>q. QED  BY <1>1, <2>1 DEF TypeOK, Typed
<1>4. \A r \in Requests : Local(req[r])'
  <2>1. \A r \in Requests : req[r].now \in Nat
    BY DEF TypeOK, Typed
  <2>q. QED  BY <1>1, <2>1 DEF Local
<1>5. Counters'
  BY <1>1 DEF Counters, InFlight
<1>6. Stored'
  BY <1>2, FS_Subset DEF Stored
<1>7. ASSUME NEW w \in Capped
      PROVE  Balanced(w)'
  <2>1. w \in W
    BY CapNat
  <2>2. Debtors(w)' = Debtors(w)
    BY <1>1 DEF Debtors
  <2>3. Counted(w, clock)' \in SUBSET Counted(w, clock)
    <3>1. \A e \in store[w] : e.at \in Nat
      BY <2>1 DEF TypeOK, Debits
    <3>2. Windows[w].size \in Nat
      BY <2>1, WindowsNumbered
    <3>q. QED  BY <1>1, <1>2, <2>1, <3>1, <3>2 DEF Counted, Cutoff
  <2>4. IsFiniteSet(Counted(w, clock)) /\ Counted(w, clock) \in SUBSET Debits
    BY <1>1, <2>1, CountedSums
  <2>5. Credits(Counted(w, clock)') =< Credits(Counted(w, clock))
    BY <2>3, <2>4, CreditsGrow
  <2>6. Credits(Counted(w, clock)') \in Nat /\ Credits(Counted(w, clock)) \in Nat
    <3>1. IsFiniteSet(Counted(w, clock)') /\ Counted(w, clock)' \in SUBSET Debits
      BY <2>3, <2>4, FS_Subset
    <3>q. QED  BY <2>4, <3>1, CreditsNat
  <2>7. PICK x : x = Cardinality(Debtors(w)) * MaxCredits
    OBVIOUS
  <2>8. PICK y : y = Windows[w].cap + (MaxInFlight + Cardinality(unchecked)) * MaxCredits
    OBVIOUS
  <2>9. x \in Nat /\ y \in Nat
    <3>1. MaxCredits \in Nat /\ MaxInFlight \in Nat /\ Windows[w].cap \in Nat
      BY CapNat, DearestCharge, MeteringAssumption DEF MeteringAssumption
    <3>2. Cardinality(Debtors(w)) \in Nat
      BY <2>1, DebtorsAtWork, FS_Subset, FS_CardinalityType DEF Counters
    <3>3. PICK u \in Nat : u = MaxInFlight + Cardinality(unchecked)
      BY <3>1, FS_CardinalityType DEF Counters
    <3>4. u * MaxCredits \in Nat
      BY <3>1, Times
    <3>q. QED  BY <2>7, <2>8, <3>1, <3>2, <3>3, <3>4, Times
  <2>10. Credits(Counted(w, clock)) + x < y
    BY <2>7, <2>8 DEF Balanced
  <2>11. Credits(Counted(w, clock)') + x < y
    BY <2>5, <2>6, <2>9, <2>10
  <2>q. QED  BY <1>1, <2>2, <2>7, <2>8, <2>11 DEF Balanced
<1>q. QED  BY <1>3, <1>4, <1>5, <1>6, <1>7 DEF Capped

\* At first nobody owes and nothing is counted.
LEMMA BudgetInitially ==
  ASSUME Affordable, Init
  PROVE  BudgetInv
<1>1. TypeOK
  BY DEF Init, TypeOK, Typed, Idle, Bare
<1>2. \A r \in Requests : req[r] = Idle
  BY DEF Init
<1>3. \A r \in Requests : Local(req[r])
  BY <1>2 DEF Init, Local, Idle, Bare, Checking, Recording
<1>4. InFlight = {} /\ unchecked = {}
  BY <1>2 DEF Init, InFlight, Idle, Bare, Steps, Checking, Recording
<1>5. Cardinality({}) = 0 /\ IsFiniteSet({})
  BY FS_EmptySet
<1>6. Counters
  BY <1>4, <1>5, MeteringAssumption DEF Counters, MeteringAssumption
<1>7. Stored
  BY <1>5 DEF Init, Stored
<1>8. ASSUME NEW w \in Capped
      PROVE  Balanced(w)
  <2>1. w \in W /\ Windows[w].cap \in Nat /\ Windows[w].cap > 0 /\ MaxCredits \in Nat /\ MaxInFlight \in Nat
    BY CapNat, DearestCharge, MeteringAssumption DEF MeteringAssumption
  <2>2. Debtors(w) = {}
    BY <1>4, <2>1, DebtorsAtWork
  <2>3. Counted(w, clock) = {}
    BY <2>1 DEF Init, Counted
  <2>4. Credits({}) = 0
    BY <1>5, CreditsPicked
  <2>5. 0 * MaxCredits = 0 /\ (MaxInFlight + 0) * MaxCredits \in Nat
    <3>1. PICK m \in Nat : m = MaxCredits
      BY <2>1
    <3>2. MaxInFlight * m \in Nat /\ MaxInFlight + 0 = MaxInFlight
      BY <2>1, Times
    <3>q. QED  BY <3>1, <3>2
  <2>q. QED  BY <1>4, <1>5, <2>1, <2>2, <2>3, <2>4, <2>5 DEF Balanced
<1>q. QED  BY <1>1, <1>3, <1>6, <1>7, <1>8 DEF BudgetInv

\* Every step keeps the balance, those of a failing environment among them.
LEMMA BudgetStep ==
  ASSUME BudgetInv, Affordable, [Next]_vars
  PROVE  BudgetInv'
<1>1. CASE UNCHANGED vars
  BY <1>1 DEF vars, BudgetInv, TypeOK, Typed, Local, Counters, InFlight, Stored, Balanced, Debtors,
              Counted, Cutoff
<1>2. ASSUME NEW r \in Requests, Serve(r)
      PROVE  BudgetInv'
  <2>1. CASE DebitFails(r)
    <3>1. Take(req[r].w, Owed(r)) \/ UNCHANGED <<store, written>>
      BY <2>1 DEF DebitFails
    <3>q. QED  BY <2>1, <3>1, EndBudget, DebitBudget
  <2>2. CASE ~ DebitFails(r)
    BY <1>2, <2>2, BeginBudget, TrimBudget, SumBudget, FailBudget, EndBudget, AnswerBudget,
       DebitBudget, ExtendBudget DEF Serve
  <2>q. QED  BY <2>1, <2>2
<1>3. CASE Tick
  BY <1>3, TickBudget
<1>q. QED  BY <1>1, <1>2, <1>3 DEF Next, Finished

\* What a window counts and what may still be added to it stays within the cap
\* and a charge for each request in flight or let through by a failed precheck.
THEOREM BudgetIsKept ==
  ASSUME Affordable
  PROVE  Spec => []BudgetInv
<1>1. Init => BudgetInv
  BY BudgetInitially
<1>2. BudgetInv /\ [Next]_vars => BudgetInv'
  BY BudgetStep
<1>q. QED  BY <1>1, <1>2, PTL DEF Spec

\* So a window goes over its cap by less than that, whatever is slow, fails or dies.
THEOREM OvershootIsBounded ==
  ASSUME NEW m \in Nat, \A u \in ChargedUsages : CreditsFor(u) =< m
  PROVE  Spec => []OvershootBounded
<1>0. Affordable
  BY DEF Affordable
<1>1. Spec => []BudgetInv
  BY <1>0, BudgetIsKept
<1>2. BudgetInv => OvershootBounded
  <2> SUFFICES ASSUME BudgetInv, NEW w \in Capped
               PROVE  Total(w, clock) <
                        Windows[w].cap + (MaxInFlight + Cardinality(unchecked)) * MaxCredits
    BY DEF OvershootBounded
  <2>1. w \in W /\ MaxCredits \in Nat /\ clock \in Nat
    BY <1>0, CapNat, DearestCharge DEF BudgetInv, TypeOK
  <2>2. Credits(Counted(w, clock)) \in Nat
    BY <2>1, CountedSums DEF BudgetInv
  <2>3. Cardinality(Debtors(w)) \in Nat
    BY <2>1, DebtorsAtWork, FS_Subset, FS_CardinalityType DEF BudgetInv, Counters
  <2>4. PICK x \in Nat : x = Cardinality(Debtors(w)) * MaxCredits
    BY <2>1, <2>3, Times
  <2>5. PICK y \in Nat : y = Windows[w].cap + (MaxInFlight + Cardinality(unchecked)) * MaxCredits
    <3>1. MaxInFlight \in Nat /\ Windows[w].cap \in Nat /\ Cardinality(unchecked) \in Nat
      BY CapNat, MeteringAssumption, FS_CardinalityType DEF MeteringAssumption, BudgetInv, Counters
    <3>2. PICK u \in Nat : u = MaxInFlight + Cardinality(unchecked)
      BY <3>1
    <3>3. u * MaxCredits \in Nat
      BY <2>1, Times
    <3>q. QED  BY <3>1, <3>2, <3>3
  <2>6. Credits(Counted(w, clock)) + x < y
    BY <2>4, <2>5 DEF BudgetInv, Balanced
  <2>7. Credits(Counted(w, clock)) < y
    BY <2>2, <2>6
  <2>q. QED  BY <2>5, <2>7 DEF Total
<1>q. QED  BY <1>1, <1>2, PTL

-----------------------------------------------------------------------------
(* How long a refused request is told to wait. *)

Open == Checking \cup {"refused"}

\* The debits that window w took and that count until a given time at least.
Late(w, at) == {e \in written[w] : e.at + Windows[w].size >= at}

\* Until a reset is due its window stays at its cap.
Justified(x, now) ==
  /\ x.window \in Capped /\ x.at \in Nat /\ x.at >= now
  /\ Credits(Late(x.window, x.at)) >= Windows[x.window].cap

Waiting(q) ==
  /\ q.pc \in Checking => q.w \in Capped
  /\ q.pc \in Open => \A x \in q.resets : Justified(x, q.now)
  /\ q.pc = "refused" => q.resets # {}

Kept == \A w \in W : IsFiniteSet(written[w])

WaitInv == MeteringInv /\ Kept /\ \A r \in Requests : Waiting(req[r])

\* A step that writes nothing changes nobody's reasons but one's own.
LEMMA QuietWait ==
  ASSUME WaitInv, MeteringInv', NEW r \in Requests, NEW q, Typed(q), Become(r, q),
         UNCHANGED written, Waiting(q)
  PROVE  WaitInv'
<1>1. /\ req'[r] = q /\ \A s \in Requests \ {r} : req'[s] = req[s]
  BY Moved DEF WaitInv, MeteringInv
<1>2. Kept'
  BY DEF WaitInv, Kept
<1>3. \A p : Waiting(p) => Waiting(p)'
  BY DEF Waiting, Justified, Late
<1>4. ASSUME NEW s \in Requests
      PROVE  Waiting(req[s])'
  <2>1. PICK p : p = req'[s]
    OBVIOUS
  <2>2. Waiting(p)
    BY <1>1, <2>1 DEF WaitInv
  <2>3. Waiting(p)'
    BY <1>3, <2>2
  <2>q. QED  BY <2>1, <2>3 DEF Waiting, Justified, Late
<1>q. QED  BY <1>2, <1>4 DEF WaitInv

\* A request that is only starting has no resets.
LEMMA BeginWait ==
  ASSUME WaitInv, MeteringInv', NEW r \in Requests, Begin(r)
  PROVE  WaitInv'
<1> DEFINE q == [Idle EXCEPT !.now = clock]
<1>1. Typed(q) /\ q.now = clock /\ q.resets = {}
  BY DEF Typed, Idle, Bare, WaitInv, MeteringInv, TypeOK
<1>2. PICK next : next = CheckFrom(q, 1)
  OBVIOUS
<1>3. /\ Typed(next) /\ next.pc \in {"trim", "forward", "refused"}
      /\ next.pc = "trim" => next.w \in Capped /\ next.resets = {}
      /\ next.pc # "refused"
  <2>1. 1 \in Nat
    OBVIOUS
  <2> HIDE DEF q
  <2>q. QED  BY <1>1, <1>2, <2>1, NextCheck, CheckGoesOn
<1>4. Become(r, next) /\ UNCHANGED written
  BY <1>2 DEF Begin
<1>5. Waiting(next)
  BY <1>3 DEF Waiting, Checking, Open
<1>q. QED  BY <1>3, <1>4, <1>5, QuietWait

\* A trim keeps the resets found so far.
LEMMA TrimWait ==
  ASSUME WaitInv, MeteringInv', NEW r \in Requests, Trim(r)
  PROVE  WaitInv'
<1>1. Typed(req[r]) /\ Waiting(req[r]) /\ req[r].pc = "trim"
  BY DEF WaitInv, MeteringInv, TypeOK, Trim, At
<1>2. PICK q : q = [req[r] EXCEPT !.pc = "sum"]
  OBVIOUS
<1>3. /\ Typed(q) /\ q.pc = "sum" /\ q.w = req[r].w /\ q.resets = req[r].resets
      /\ q.now = req[r].now
  BY <1>1, <1>2 DEF Typed, Steps, Checking
<1>4. Become(r, q) /\ UNCHANGED written
  BY <1>2 DEF Trim
<1>5. Waiting(q)
  BY <1>1, <1>3 DEF Waiting, Checking, Open
<1>q. QED  BY <1>3, <1>4, <1>5, QuietWait

\* A window at its cap stays there until its oldest debit leaves it.
LEMMA ResetJustified ==
  ASSUME WaitInv, NEW w \in Capped, NEW now \in Nat,
         Total(w, now) >= Windows[w].cap
  PROVE  Justified([window |-> w, at |-> Oldest(w, now) + Windows[w].size], now)
<1>1. w \in W /\ Windows[w].cap \in Nat /\ Windows[w].cap > 0 /\ Windows[w].size \in Nat
  BY CapNat, WindowsNumbered
<1>2. /\ Counted(w, now) \in SUBSET written[w] /\ written[w] \in SUBSET Debits
      /\ IsFiniteSet(written[w])
  BY <1>1 DEF Counted, WaitInv, Kept, MeteringInv, Sound, TypeOK
<1>3. Counted(w, now) # {}
  <2>1. IsFiniteSet({}) /\ Credits({}) = 0
    BY FS_EmptySet, CreditsPicked
  <2>q. QED  BY <1>1, <2>1 DEF Total
<1>4. PICK o \in Nat : /\ o = Oldest(w, now) /\ \A e \in Counted(w, now) : o =< e.at
                       /\ o >= now - Windows[w].size
  <2> DEFINE ats == {e.at : e \in Counted(w, now)}
  <2>1. ats \in SUBSET Nat /\ ats # {}
    BY <1>2, <1>3 DEF Debits
  <2>2. \A a \in ats : a >= now - Windows[w].size
    BY DEF Counted, Cutoff
  <2>3. \A e \in Counted(w, now) : e.at \in ats
    OBVIOUS
  <2>4. Oldest(w, now) = Min(ats)
    BY DEF Oldest
  <2> HIDE DEF ats
  <2>5. PICK k \in ats : \A a \in ats : k =< a
    BY <2>1, LeastMember
  <2>6. Min(ats) \in ats /\ \A a \in ats : Min(ats) =< a
    BY <2>5 DEF Min
  <2>q. QED  BY <2>1, <2>2, <2>3, <2>4, <2>6
<1>5. PICK at \in Nat : at = o + Windows[w].size
  BY <1>1
<1>6. at >= now
  BY <1>1, <1>4, <1>5
<1>7. Counted(w, now) \in SUBSET Late(w, at)
  <2>1. \A e \in Counted(w, now) : e.at \in Nat
    BY <1>2 DEF Debits
  <2>q. QED  BY <1>1, <1>2, <1>4, <1>5, <2>1 DEF Late
<1>8. Late(w, at) \in SUBSET Debits /\ IsFiniteSet(Late(w, at))
  <2>1. Late(w, at) \in SUBSET written[w]
    BY DEF Late
  <2>q. QED  BY <1>2, <2>1, FS_Subset
<1>9. Credits(Counted(w, now)) =< Credits(Late(w, at))
  BY <1>7, <1>8, CreditsGrow
<1>10. Credits(Counted(w, now)) \in Nat /\ Credits(Late(w, at)) \in Nat
  <2>1. Counted(w, now) \in SUBSET Debits /\ IsFiniteSet(Counted(w, now))
    BY <1>2, FS_Subset
  <2>q. QED  BY <1>8, <2>1, CreditsNat
<1>11. Credits(Late(w, at)) >= Windows[w].cap
  BY <1>1, <1>9, <1>10 DEF Total
<1>q. QED  BY <1>4, <1>5, <1>6, <1>11 DEF Justified

\* What the next window adds is justified.
LEMMA SumWait ==
  ASSUME WaitInv, MeteringInv', NEW r \in Requests, Sum(r)
  PROVE  WaitInv'
<1> DEFINE w == req[r].w
           reset == [window |-> w, at |-> Oldest(w, req[r].now) + Windows[w].size]
           full == Total(w, req[r].now) >= Windows[w].cap
<1>1. /\ Typed(req[r]) /\ Waiting(req[r]) /\ req[r].pc = "sum"
      /\ req[r].now \in Nat /\ w \in Capped /\ w \in Nat
  BY CapNat DEF WaitInv, MeteringInv, TypeOK, Sum, At, Typed, Waiting, Checking
<1>2. PICK n \in Nat : n = w + 1
  BY <1>1
<1>3. PICK q : /\ q = IF full THEN [req[r] EXCEPT !.resets = @ \cup {reset}] ELSE req[r]
               /\ Become(r, CheckFrom(q, n)) /\ UNCHANGED written
  BY <1>2 DEF Sum
<1>4. full => Justified(reset, req[r].now)
  BY <1>1, ResetJustified
<1> HIDE DEF reset, full
<1>5. /\ Typed(q) /\ q.now = req[r].now
      /\ \A x \in q.resets : Justified(x, q.now)
  <2>0. \A x \in req[r].resets : Justified(x, req[r].now)
    BY <1>1 DEF Waiting, Open, Checking
  <2>1. CASE full
    <3>1. Typed(q) /\ q.now = req[r].now /\ q.resets = req[r].resets \cup {reset}
      BY <1>1, <1>3, <2>1 DEF Typed
    <3>q. QED  BY <1>4, <2>0, <2>1, <3>1
  <2>2. CASE ~ full
    BY <1>1, <1>3, <2>0, <2>2
  <2>q. QED  BY <2>1, <2>2
<1>6. PICK next : next = CheckFrom(q, n)
  OBVIOUS
<1>7. /\ Typed(next) /\ next.pc \in {"trim", "forward", "refused"}
      /\ next.pc = "trim" => next.w \in Capped /\ next.resets = q.resets /\ next.now = q.now
      /\ next.pc = "refused" => next.resets = q.resets /\ next.now = q.now /\ q.resets # {}
  BY <1>5, <1>6, NextCheck, CheckGoesOn
<1>8. Waiting(next)
  BY <1>5, <1>7 DEF Waiting, Checking, Open
<1>q. QED  BY <1>3, <1>6, <1>7, <1>8, QuietWait

\* Past the precheck nobody waits.
LEMMA PastWait ==
  ASSUME WaitInv, MeteringInv', NEW r \in Requests,
         UpstreamFails(r) \/ (\E u \in ChargedUsages : Answer(r, u)) \/ Extend(r)
  PROVE  WaitInv'
<1>1. Typed(req[r]) /\ clock \in Nat
  BY DEF WaitInv, MeteringInv, TypeOK
<1>2. PICK q : /\ Become(r, q) /\ Typed(q) /\ q.pc \in {"debit", "done"}
  <2>d. Typed(Bare("done")) /\ Bare("done").pc = "done"
    BY DEF Typed, Bare, Over
  <2>1. CASE UpstreamFails(r)
    BY <2>1, <2>d DEF UpstreamFails
  <2>2. ASSUME NEW p, Typed(p), NEW w \in Nat
        PROVE  Typed(DebitFrom(p, w)) /\ DebitFrom(p, w).pc \in {"debit", "done"}
    <3>1. CASE w \in W
      <4>1. DebitFrom(p, w) = [p EXCEPT !.pc = "debit", !.w = w]
        BY <3>1 DEF DebitFrom
      <4>q. QED  BY <2>2, <4>1 DEF Typed, Steps, Recording
    <3>2. CASE w \notin W
      BY <2>d, <3>2 DEF DebitFrom
    <3>q. QED  BY <3>1, <3>2
  <2>3. ASSUME NEW u \in ChargedUsages, Answer(r, u)
        PROVE  \E q : Become(r, q) /\ Typed(q) /\ q.pc \in {"debit", "done"}
    <3>1. PICK p : p = [req[r] EXCEPT !.now = clock, !.credits = CreditsFor(u)]
      OBVIOUS
    <3>2. Typed(p)
      BY <1>1, <3>1, ChargeNat DEF Typed
    <3>3. Become(r, IF p.credits > 0 THEN DebitFrom(p, 1) ELSE Bare("done"))
      BY <2>3, <3>1 DEF Answer
    <3>4. Typed(DebitFrom(p, 1)) /\ DebitFrom(p, 1).pc \in {"debit", "done"}
      BY <2>2, <3>2
    <3>q. QED  BY <2>d, <3>3, <3>4
  <2>4. CASE Extend(r)
    <3>1. PICK n \in Nat : n = req[r].w + 1
      BY <1>1 DEF Typed
    <3>2. Become(r, DebitFrom(req[r], n))
      BY <2>4, <3>1 DEF Extend
    <3>3. Typed(DebitFrom(req[r], n)) /\ DebitFrom(req[r], n).pc \in {"debit", "done"}
      BY <1>1, <2>2
    <3>q. QED  BY <3>2, <3>3
  <2>q. QED  BY <2>1, <2>3, <2>4
<1>3. UNCHANGED written
  BY DEF UpstreamFails, Answer, Extend
<1>4. Waiting(q)
  BY <1>2 DEF Waiting, Checking, Open
<1>q. QED  BY <1>2, <1>3, <1>4, QuietWait

\* A debit more only adds to the reasons.
LEMMA DebitWait ==
  ASSUME WaitInv, MeteringInv', NEW r \in Requests, Debit(r)
  PROVE  WaitInv'
<1> DEFINE w == req[r].w
           e == Owed(r)
           q == [req[r] EXCEPT !.pc = "extend"]
<1>1. Typed(req[r]) /\ w \in W /\ req[r].pc = "debit"
  BY DEF WaitInv, MeteringInv, TypeOK, Phases, Places, Debit, At, Recording
<1>2. Typed(q) /\ q.pc = "extend"
  BY <1>1 DEF Typed, Steps, Recording
<1>3. written' = [written EXCEPT ![w] = @ \cup {e}] /\ Become(r, q)
  BY DEF Debit, Take
<1> HIDE DEF e, q
<1>4. written'[w] = written[w] \cup {e} /\ \A v \in W \ {w} : written'[v] = written[v]
  BY <1>1, <1>3 DEF WaitInv, MeteringInv, TypeOK
<1>5. req'[r] = q /\ \A s \in Requests \ {r} : req'[s] = req[s]
  BY <1>2, <1>3, Moved DEF WaitInv, MeteringInv
<1>6. Kept'
  <2>1. IsFiniteSet(written[w] \cup {e})
    BY <1>1, FS_AddElement DEF WaitInv, Kept
  <2>q. QED  BY <1>4, <2>1 DEF WaitInv, Kept
<1>7. ASSUME NEW x, NEW now, Justified(x, now)
      PROVE  Justified(x, now)'
  <2>1. x.window \in Capped /\ x.at \in Nat /\ x.at >= now
    BY <1>7 DEF Justified
  <2>2. PICK v \in W : v = x.window /\ v \in Capped
    BY <2>1, CapNat
  <2>3. PICK a \in Nat : a = x.at
    BY <2>1
  <2>4. Late(v, a) \in SUBSET Late(v, a)' /\ Late(v, a)' \in SUBSET Debits
        /\ IsFiniteSet(Late(v, a)')
    <3>1. Late(v, a) \in SUBSET Late(v, a)'
      BY <1>4 DEF Late
    <3>2. Late(v, a)' \in SUBSET written'[v]
      BY DEF Late
    <3>3. written'[v] \in SUBSET Debits /\ IsFiniteSet(written'[v])
      BY <1>6 DEF MeteringInv, TypeOK, Kept
    <3>q. QED  BY <3>1, <3>2, <3>3, FS_Subset
  <2>5. Credits(Late(v, a)) =< Credits(Late(v, a)')
    BY <2>4, CreditsGrow
  <2>6. Credits(Late(v, a)) \in Nat /\ Credits(Late(v, a)') \in Nat
    <3>1. Late(v, a) \in SUBSET Debits /\ IsFiniteSet(Late(v, a))
      BY <2>4, FS_Subset
    <3>q. QED  BY <2>4, <3>1, CreditsNat
  <2>7. Credits(Late(v, a)) >= Windows[v].cap /\ Windows[v].cap \in Nat
    BY <1>7, <2>2, <2>3, CapNat DEF Justified
  <2>8. Credits(Late(v, a)') >= Windows[v].cap
    BY <2>5, <2>6, <2>7
  <2>q. QED  BY <2>1, <2>2, <2>3, <2>8 DEF Justified, Capped
<1>8. ASSUME NEW s \in Requests
      PROVE  Waiting(req[s])'
  <2>1. CASE s = r
    <3>1. req'[s].pc = "extend"
      BY <1>2, <1>5, <2>1
    <3>q. QED  BY <3>1 DEF Waiting, Checking, Open
  <2>2. CASE s # r
    <3>1. req'[s] = req[s] /\ Waiting(req[s])
      BY <1>5, <2>2 DEF WaitInv
    <3>2. PICK p : p = req[s]
      OBVIOUS
    <3>3. \A x \in p.resets : Justified(x, p.now) => Justified(x, p.now)'
      BY <1>7
    <3>q. QED  BY <3>1, <3>2, <3>3 DEF Waiting, Capped
  <2>q. QED  BY <2>1, <2>2
<1>q. QED  BY <1>6, <1>8 DEF WaitInv

\* Every step keeps what was found justified.
LEMMA WaitStep ==
  ASSUME WaitInv, Events = {}, [Next]_vars
  PROVE  WaitInv'
<1>0. MeteringInv'
  BY MeteringStep DEF WaitInv
<1>1. ASSUME UNCHANGED <<req, written>>
      PROVE  WaitInv'
  BY <1>0, <1>1 DEF WaitInv, Kept, Waiting, Justified, Late
<1>2. ASSUME NEW r \in Requests, Serve(r)
      PROVE  WaitInv'
  <2>1. ~ CheckFails(r) /\ ~ DebitFails(r) /\ ~ Abandon(r)
    BY DEF CheckFails, DebitFails, Abandon
  <2>q. QED
    BY <1>0, <1>2, <2>1, BeginWait, TrimWait, SumWait, PastWait, DebitWait DEF Serve
<1>3. CASE Tick
  BY <1>1, <1>3 DEF Tick
<1>4. CASE UNCHANGED vars
  BY <1>1, <1>4 DEF vars
<1>q. QED  BY <1>2, <1>3, <1>4 DEF Next, Finished

\* Every reset a precheck has found has its reason in debits that count until then.
THEOREM ResetsAreKept ==
  ASSUME Events = {}
  PROVE  Spec => []WaitInv
<1>1. Init => WaitInv
  <2> SUFFICES ASSUME Init PROVE WaitInv
    OBVIOUS
  <2>1. \A r \in Requests : req[r] = Idle
    BY DEF Init
  <2>2. \A r \in Requests : Waiting(req[r])
    BY <2>1 DEF Waiting, Idle, Bare, Checking, Open
  <2>3. Kept
    BY FS_EmptySet DEF Init, Kept
  <2>q. QED  BY <2>2, <2>3, MeteringInitially DEF WaitInv
<1>2. WaitInv /\ [Next]_vars => WaitInv'
  BY WaitStep
<1>q. QED  BY <1>1, <1>2, PTL DEF Spec

\* As long as Retry-After lasts, some window is at its cap.
THEOREM WaitsAreNeeded ==
  ASSUME Events = {}
  PROVE  Spec => []WaitIsNotWasted
<1>1. Spec => []WaitInv
  BY ResetsAreKept
<1>2. WaitInv => WaitIsNotWasted
  <2> SUFFICES ASSUME WaitInv, NEW r \in Requests, At(r, "refused"),
                      clock < req[r].now + RetryAfter(req[r])
               PROVE  \E w \in Capped : Total(w, clock) >= Windows[w].cap
    BY DEF WaitIsNotWasted
  <2>1. /\ req[r].resets # {} /\ req[r].now \in Nat /\ clock \in Nat
        /\ \A x \in req[r].resets : Justified(x, req[r].now)
    BY DEF WaitInv, Waiting, At, Open, MeteringInv, TypeOK, Typed
  <2>2. PICK x \in req[r].resets : Min({y.at : y \in req[r].resets}) = x.at
    <3> DEFINE ats == {y.at : y \in req[r].resets}
    <3>1. ats \in SUBSET Nat /\ ats # {}
      BY <2>1 DEF Justified
    <3>2. Min(ats) \in ats
      <4> HIDE DEF ats
      <4>1. PICK k \in ats : \A a \in ats : k =< a
        BY <3>1, LeastMember
      <4>q. QED  BY <4>1 DEF Min
    <3>q. QED  BY <3>2
  <2>3. PICK w \in W : w = x.window /\ w \in Capped
    BY <2>1, CapNat DEF Justified
  <2>4. PICK at \in Nat : at = x.at /\ at >= req[r].now
    BY <2>1 DEF Justified
  <2>5. RetryAfter(req[r]) = at - req[r].now
    <3>1. PICK d \in Nat : d = at - req[r].now
      BY <2>1, <2>4
    <3>2. Max({0, d}) = d
      <4>1. d \in {0, d} /\ \A y \in {0, d} : d >= y
        OBVIOUS
      <4>2. /\ Max({0, d}) \in {0, d}
            /\ \A y \in {0, d} : Max({0, d}) >= y
        BY <4>1 DEF Max
      <4>q. QED  BY <4>2
    <3>q. QED  BY <2>2, <2>4, <3>1, <3>2 DEF RetryAfter
  <2>6. clock =< at
    BY <2>1, <2>4, <2>5
  <2>7. Windows[w].size \in Nat /\ Windows[w].cap \in Nat
    BY WindowsNumbered
  <2>8. Late(w, at) \in SUBSET Counted(w, clock)
    <3>1. \A e \in written[w] : e.at \in Nat
      BY DEF WaitInv, MeteringInv, TypeOK, Debits
    <3>2. ASSUME NEW e \in Late(w, at)
          PROVE  e \in Counted(w, clock)
      <4>1. e \in written[w] /\ e.at >= clock - Windows[w].size
        BY <2>1, <2>6, <2>7, <3>1 DEF Late
      <4>q. QED  BY <4>1 DEF Counted, Cutoff, WaitInv, MeteringInv, WindowsRemember
    <3>q. QED  BY <3>2
  <2>9. Counted(w, clock) \in SUBSET Debits /\ IsFiniteSet(Counted(w, clock))
    <3>1. Counted(w, clock) \in SUBSET written[w]
      BY DEF Counted, WaitInv, MeteringInv, Sound
    <3>q. QED  BY <3>1, FS_Subset DEF WaitInv, Kept, MeteringInv, TypeOK
  <2>10. Credits(Late(w, at)) =< Credits(Counted(w, clock))
    BY <2>8, <2>9, CreditsGrow
  <2>11. Credits(Late(w, at)) \in Nat /\ Credits(Counted(w, clock)) \in Nat
    <3>1. Late(w, at) \in SUBSET Debits /\ IsFiniteSet(Late(w, at))
      BY <2>8, <2>9, FS_Subset
    <3>q. QED  BY <2>9, <3>1, CreditsNat
  <2>12. Credits(Late(w, at)) >= Windows[w].cap
    BY <2>1, <2>3, <2>4 DEF Justified
  <2>13. Total(w, clock) >= Windows[w].cap
    BY <2>7, <2>10, <2>11, <2>12 DEF Total
  <2>q. QED  BY <2>3, <2>13
<1>q. QED  BY <1>1, <1>2, PTL
====
