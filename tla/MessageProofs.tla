---------------------------- MODULE MessageProofs ----------------------------
(***************************************************************************)
(* Proofs about the messages of reported sales, subscribers' chats and the *)
(* company's outbox, for any number of senders, workers, handlers,         *)
(* contacts and messages.                                                  *)
(*                                                                         *)
(* A report with an event id is told of once because its record is the     *)
(* ticket to the rest: every record is told of, lost, or with one of the   *)
(* handlers past it.  An address has one lead because, of the handlers     *)
(* about to create one, no two have the same address without both having   *)
(* been seen.                                                              *)
(*                                                                         *)
(* A promise of a human is kept because whoever posted it marks the        *)
(* contact in the transaction it commits.  A reply goes out once because   *)
(* the worker that decides it is alone with it, and its verdict says what  *)
(* it has sent.                                                            *)
(*                                                                         *)
(* A message of the outbox goes out once for the same reason.  The limits  *)
(* hold because the messages in the air, between gate and commit, count:   *)
(* each sender has at most one, so counted and flying messages together    *)
(* stay below the limit and the number of senders.                         *)
(***************************************************************************)
EXTENDS Intake, TenantChat, Outbound, FiniteSetTheorems, WellFoundedInduction, TLAPS

(***************************************************************************)
(* Reported sales.                                                         *)
(***************************************************************************)

Lead == [mail : Values, phone : Values]

HandlersInv ==
  /\ intake \in [Intakes -> Intake]
  /\ \A h \in Intakes : intake[h].pc # "idle" => intake[h].sale \in Sales

ToldInv ==
  /\ recorded \in [Sales -> Nat] /\ told \in [Sales -> Nat] /\ lost \in [Sales -> Nat]
  /\ ToldOnce

LeadsInv ==
  /\ leads \in Seq(Lead) /\ mixed \subseteq Values
  /\ \A h \in Intakes : intake[h].pc = "write" => intake[h].lead \in 0..Len(leads)

\* The handlers that are about to create a lead, by the address they create it for.
Creating(h, m) == intake[h].pc = "write" /\ MailOf[intake[h].sale] = m
Exempt(m) == m \in mixed \cup {NoValue}

ClonesInv ==
  /\ \A h \in Intakes, m \in Values : Creating(h, m) /\ intake[h].lead = 0 /\ ~Exempt(m) =>
       \A l \in DOMAIN leads : leads[l].mail # m
  /\ \A h, g \in Intakes, m \in Values : Creating(h, m) /\ Creating(g, m) /\ ~Exempt(m) => h = g
  /\ NoClones

IntakeInv == HandlersInv /\ ToldInv /\ LeadsInv /\ ClonesInv

-----------------------------------------------------------------------------
LEMMA ValuesOfSales ==
  ASSUME NEW e \in Sales PROVE MailOf[e] \in Values /\ PhoneOf[e] \in Values /\ NoValue \in Values
BY DEF Values

LEMMA IdleIntakeType == IdleIntake \in Intake /\ IdleIntake.pc = "idle"
BY DEF IdleIntake, Intake

\* A handler that takes a step, or is dropped.
LEMMA Stepping ==
  ASSUME HandlersInv, NEW h \in Intakes, NEW pc, NEW e, NEW lead, Steps(h, pc, e, lead),
         pc \in {"record", "find", "write", "tell"}, e \in Sales, lead \in Nat
  PROVE  /\ intake' \in [Intakes -> Intake]
         /\ intake'[h].pc = pc /\ intake'[h].sale = e /\ intake'[h].lead = lead
         /\ \A g \in Intakes \ {h} : intake'[g] = intake[g]
<1>1. [pc |-> pc, sale |-> e, lead |-> lead] \in Intake
  BY DEF Intake
<1> QED BY <1>1 DEF HandlersInv, Steps

LEMMA Dropping ==
  ASSUME HandlersInv, NEW h \in Intakes, Drop(h)
  PROVE  /\ intake' \in [Intakes -> Intake] /\ intake'[h].pc = "idle"
         /\ \A g \in Intakes \ {h} : intake'[g] = intake[g]
BY IdleIntakeType DEF HandlersInv, Drop

\* The handlers that have a report, as one takes it up or leaves it.
LEMMA HavingCounts ==
  ASSUME NEW e
  PROVE  IsFiniteSet(Having(e)) /\ Cardinality(Having(e)) \in Nat
<1>1. Having(e) \subseteq Intakes
  BY DEF Having
<1> QED BY <1>1, IntakeAssumption, FS_Subset, FS_CardinalityType

LEMMA HavingKept ==
  ASSUME \A g \in Intakes : /\ Begun(g)' <=> Begun(g)
                            /\ Begun(g) => intake'[g].sale = intake[g].sale,
         UNCHANGED <<recorded, told, lost>>, ToldInv
  PROVE  ToldInv'
<1>1. \A e : Having(e)' = Having(e)
  BY DEF Having
<1> QED BY <1>1 DEF ToldInv, ToldOnce

LEMMA HavingMore ==
  ASSUME NEW h \in Intakes, NEW e, ~Begun(h), Begun(h)', intake'[h].sale = e,
         \A g \in Intakes \ {h} : intake'[g] = intake[g]
  PROVE  /\ Cardinality(Having(e)') = Cardinality(Having(e)) + 1
         /\ \A s : s # e => Having(s)' = Having(s)
<1>1. Having(e)' = Having(e) \cup {h} /\ h \notin Having(e)
  BY DEF Having, Begun
<1>2. \A s : s # e => Having(s)' = Having(s)
  BY DEF Having, Begun
<1> QED BY <1>1, <1>2, HavingCounts, FS_AddElement

LEMMA HavingLess ==
  ASSUME NEW h \in Intakes, NEW e, Begun(h), ~Begun(h)', intake[h].sale = e,
         \A g \in Intakes \ {h} : intake'[g] = intake[g]
  PROVE  /\ Cardinality(Having(e)') = Cardinality(Having(e)) - 1
         /\ \A s : s # e => Having(s)' = Having(s)
<1>1. Having(e)' = Having(e) \ {h} /\ h \in Having(e)
  BY DEF Having, Begun
<1>2. \A s : s # e => Having(s)' = Having(s)
  BY DEF Having, Begun
<1> QED BY <1>1, <1>2, HavingCounts, FS_RemoveElement

\* A handler that enters or leaves the record step, or leaves altogether, disturbs no lead.
LEMMA LeadsRest ==
  ASSUME IntakeInv, NEW h \in Intakes, UNCHANGED leads,
         \A g \in Intakes \ {h} : intake'[g] = intake[g],
         intake'[h].pc # "write", mixed \subseteq mixed', mixed' \subseteq Values
  PROVE  LeadsInv' /\ ClonesInv'
<1>1. LeadsInv'
  BY DEF IntakeInv, LeadsInv
<1>2. \A g \in Intakes, m \in Values : Creating(g, m)' => g # h /\ Creating(g, m) /\ intake'[g] = intake[g]
  BY DEF Creating
<1>3. \A m : Exempt(m) => Exempt(m)'
  BY DEF Exempt
<1>4. NoClones'
  BY DEF IntakeInv, ClonesInv, NoClones
<1>5. \A g \in Intakes, m \in Values : Creating(g, m)' /\ intake'[g].lead = 0 /\ ~Exempt(m)' =>
        \A l \in DOMAIN leads : leads[l].mail # m
  BY <1>2, <1>3 DEF IntakeInv, ClonesInv
<1>6. \A f, g \in Intakes, m \in Values : Creating(f, m)' /\ Creating(g, m)' /\ ~Exempt(m)' => f = g
  BY <1>2, <1>3 DEF IntakeInv, ClonesInv
<1> QED BY <1>1, <1>4, <1>5, <1>6 DEF ClonesInv

LEMMA DeliverStep ==
  ASSUME IntakeInv, NEW h \in Intakes, NEW e \in Sales, DeliverSale(h, e)
  PROVE  IntakeInv'
<1>1. /\ intake' \in [Intakes -> Intake]
      /\ intake'[h].pc = "record" /\ intake'[h].sale = e
      /\ \A g \in Intakes \ {h} : intake'[g] = intake[g]
      /\ UNCHANGED <<recorded, leads, told, lost, mixed>> /\ intake[h].pc = "idle"
  BY Stepping DEF DeliverSale, IntakeInv
<1>2. \A g \in Intakes : Begun(g)' <=> Begun(g)
  BY <1>1 DEF Begun
<1>3. \A g \in Intakes : Begun(g) => intake'[g].sale = intake[g].sale
  BY <1>1 DEF Begun
<1>4. HandlersInv'
  BY <1>1 DEF IntakeInv, HandlersInv
<1>5. ToldInv'
  BY <1>1, <1>2, <1>3, HavingKept DEF IntakeInv
<1>6. LeadsInv' /\ ClonesInv'
  BY <1>1, LeadsRest DEF IntakeInv, LeadsInv
<1> QED BY <1>4, <1>5, <1>6 DEF IntakeInv

LEMMA RecordStep ==
  ASSUME IntakeInv, NEW h \in Intakes, RecordSale(h)
  PROVE  IntakeInv'
<1>0. PICK e \in Sales : intake[h].sale = e
  BY DEF RecordSale, IntakeInv, HandlersInv
<1>1. intake[h].pc = "record" /\ UNCHANGED <<leads, told, lost, mixed>>
  BY DEF RecordSale
<1>2. CASE Fresh(e)
  <2>1. /\ intake' \in [Intakes -> Intake]
        /\ intake'[h].pc = "find" /\ intake'[h].sale = e
        /\ \A g \in Intakes \ {h} : intake'[g] = intake[g]
        /\ recorded' = [recorded EXCEPT ![e] = @ + 1]
    BY <1>0, <1>1, <1>2, Stepping DEF RecordSale, IntakeInv
  <2>2. Begun(h)' /\ ~Begun(h)
    BY <1>1, <2>1 DEF Begun
  <2>3. /\ Cardinality(Having(e)') = Cardinality(Having(e)) + 1
        /\ \A s : s # e => Having(s)' = Having(s)
    BY <2>1, <2>2, HavingMore
  <2>4. HandlersInv'
    BY <1>1, <2>1 DEF IntakeInv, HandlersInv
  <2>5. ToldInv'
    <3>1. /\ recorded' \in [Sales -> Nat] /\ recorded'[e] = recorded[e] + 1
          /\ \A s \in Sales \ {e} : recorded'[s] = recorded[s]
      BY <1>1, <2>1 DEF IntakeInv, ToldInv
    <3>2. ASSUME NEW s \in Sales
          PROVE  told'[s] + lost'[s] + Cardinality(Having(s)') = recorded'[s]
      <4>1. told[s] + lost[s] + Cardinality(Having(s)) = recorded[s]
        BY DEF IntakeInv, ToldInv, ToldOnce
      <4>2. told[s] \in Nat /\ lost[s] \in Nat /\ Cardinality(Having(s)) \in Nat
        BY HavingCounts DEF IntakeInv, ToldInv
      <4> QED BY <1>1, <2>3, <3>1, <4>1, <4>2
    <3>3. ASSUME NEW s \in Sales, s \notin Nameless PROVE recorded'[s] <= 1
      BY <1>2, <3>1, <3>3 DEF IntakeInv, ToldInv, ToldOnce, Fresh
    <3> QED BY <1>1, <3>1, <3>2, <3>3 DEF IntakeInv, ToldInv, ToldOnce
  <2>6. LeadsInv' /\ ClonesInv'
    BY <1>1, <2>1, LeadsRest DEF IntakeInv, LeadsInv
  <2> QED BY <2>4, <2>5, <2>6 DEF IntakeInv
<1>3. CASE ~Fresh(e)
  <2>1. /\ intake' \in [Intakes -> Intake] /\ intake'[h].pc = "idle"
        /\ \A g \in Intakes \ {h} : intake'[g] = intake[g]
        /\ UNCHANGED recorded
    BY <1>0, <1>3, Dropping DEF RecordSale, IntakeInv
  <2>2. \A g \in Intakes : Begun(g)' <=> Begun(g)
    BY <1>1, <2>1 DEF Begun
  <2>3. \A g \in Intakes : Begun(g) => intake'[g].sale = intake[g].sale
    BY <1>1, <2>1 DEF Begun
  <2>4. HandlersInv'
    BY <1>1, <2>1 DEF IntakeInv, HandlersInv
  <2>5. ToldInv'
    BY <1>1, <2>1, <2>2, <2>3, HavingKept DEF IntakeInv
  <2>6. LeadsInv' /\ ClonesInv'
    BY <1>1, <2>1, LeadsRest DEF IntakeInv, LeadsInv
  <2> QED BY <2>4, <2>5, <2>6 DEF IntakeInv
<1> QED BY <1>2, <1>3

\* A handler that goes on, and does not tell, keeps its report.
LEMMA GoingOn ==
  ASSUME IntakeInv, NEW h \in Intakes, Begun(h), Begun(h)',
         intake' \in [Intakes -> Intake], intake'[h].sale = intake[h].sale,
         \A g \in Intakes \ {h} : intake'[g] = intake[g],
         UNCHANGED <<recorded, told, lost>>
  PROVE  HandlersInv' /\ ToldInv'
<1>1. \A g \in Intakes : (Begun(g)' <=> Begun(g)) /\ (Begun(g) => intake'[g].sale = intake[g].sale)
  BY DEF Begun
<1>2. HandlersInv'
  BY DEF IntakeInv, HandlersInv, Begun
<1>3. ToldInv'
  BY <1>1, HavingKept DEF IntakeInv
<1> QED BY <1>2, <1>3

\* A handler that is done with its report: told of it, or lost it.
LEMMA Ending ==
  ASSUME IntakeInv, NEW h \in Intakes, Begun(h), Drop(h), UNCHANGED recorded,
         \/ told' = [told EXCEPT ![intake[h].sale] = @ + 1] /\ UNCHANGED lost
         \/ lost' = [lost EXCEPT ![intake[h].sale] = @ + 1] /\ UNCHANGED told
  PROVE  HandlersInv' /\ ToldInv'
<1>0. PICK e \in Sales : intake[h].sale = e
  BY DEF IntakeInv, HandlersInv, Begun
<1>1. /\ intake' \in [Intakes -> Intake] /\ intake'[h].pc = "idle"
      /\ \A g \in Intakes \ {h} : intake'[g] = intake[g]
  BY Dropping DEF IntakeInv
<1>3. ~Begun(h)'
  BY <1>1 DEF Begun
<1>4. /\ Cardinality(Having(e)') = Cardinality(Having(e)) - 1
      /\ \A s : s # e => Having(s)' = Having(s)
  BY <1>1, <1>0, <1>3, HavingLess
<1>5. /\ told' \in [Sales -> Nat] /\ lost' \in [Sales -> Nat]
      /\ told'[e] + lost'[e] = told[e] + lost[e] + 1
      /\ \A s \in Sales \ {e} : told'[s] = told[s] /\ lost'[s] = lost[s]
  BY <1>0 DEF IntakeInv, ToldInv
<1>6. HandlersInv'
  BY <1>1 DEF IntakeInv, HandlersInv
<1>7. ToldInv'
  <2>1. ASSUME NEW s \in Sales
        PROVE  told'[s] + lost'[s] + Cardinality(Having(s)') = recorded'[s]
    <3>1. told[s] + lost[s] + Cardinality(Having(s)) = recorded[s]
      BY DEF IntakeInv, ToldInv, ToldOnce
    <3>2. /\ told[s] \in Nat /\ lost[s] \in Nat /\ Cardinality(Having(s)) \in Nat
          /\ told'[s] \in Nat /\ lost'[s] \in Nat /\ recorded[s] \in Nat
      BY <1>5, HavingCounts DEF IntakeInv, ToldInv
    <3> QED BY <1>0, <1>4, <1>5, <3>1, <3>2
  <2> QED BY <1>5, <2>1 DEF IntakeInv, ToldInv, ToldOnce
<1> QED BY <1>6, <1>7

LEMMA FindStep ==
  ASSUME IntakeInv, NEW h \in Intakes, FindLead(h)
  PROVE  IntakeInv'
<1> DEFINE e == intake[h].sale
           together == {g \in Intakes \ {h} : intake[g].pc = "write" /\ MailOf[intake[g].sale] = MailOf[e]}
<1>1. /\ e \in Sales /\ intake[h].pc = "find" /\ Begun(h)
      /\ UNCHANGED <<recorded, leads, told>>
      /\ mixed' = IF together = {} THEN mixed ELSE mixed \cup {MailOf[e]}
  BY DEF FindLead, IntakeInv, HandlersInv, Begun
<1>2. mixed \subseteq mixed' /\ mixed' \subseteq Values
  BY <1>1, ValuesOfSales DEF IntakeInv, LeadsInv
<1>3. CASE Drop(h) /\ lost' = [lost EXCEPT ![e] = @ + 1]
  <2>1. HandlersInv' /\ ToldInv'
    BY <1>1, <1>3, Ending
  <2>2. LeadsInv' /\ ClonesInv'
    <3>1. intake'[h].pc = "idle" /\ \A g \in Intakes \ {h} : intake'[g] = intake[g]
      BY <1>3, Dropping DEF IntakeInv
    <3> QED BY <1>1, <1>2, <3>1, LeadsRest
  <2> QED BY <2>1, <2>2 DEF IntakeInv
<1>4. ASSUME NEW l \in 0..Len(leads), Steps(h, "write", e, l), UNCHANGED lost,
             l = 0 => Fitting(e) = {}
      PROVE  IntakeInv'
  <2>1. l \in Nat
    BY DEF IntakeInv, LeadsInv
  <2>2. /\ intake' \in [Intakes -> Intake]
        /\ intake'[h].pc = "write" /\ intake'[h].sale = e /\ intake'[h].lead = l
        /\ \A g \in Intakes \ {h} : intake'[g] = intake[g]
    BY <1>1, <1>4, <2>1, Stepping DEF IntakeInv
  <2>3. HandlersInv' /\ ToldInv'
    BY <1>1, <1>4, <2>2, GoingOn DEF Begun
  <2>4. LeadsInv'
    BY <1>1, <1>2, <1>4, <2>2 DEF IntakeInv, LeadsInv
  <2>5. \A m : Exempt(m) => Exempt(m)'
    BY <1>2 DEF Exempt
  <2>6. \A g \in Intakes \ {h}, m \in Values : Creating(g, m)' <=> Creating(g, m)
    BY <2>2 DEF Creating
  <2>7. \A m : Creating(h, m)' => m = MailOf[e]
    BY <2>2 DEF Creating
  <2>8. \A g \in Intakes \ {h} : Creating(g, MailOf[e]) => MailOf[e] \in mixed'
    <3> SUFFICES ASSUME NEW g \in Intakes \ {h}, Creating(g, MailOf[e])
                 PROVE  MailOf[e] \in mixed'
      OBVIOUS
    <3>1. g \in together
      BY DEF Creating
    <3>2. mixed' = mixed \cup {MailOf[e]}
      BY <1>1, <3>1
    <3> QED BY <3>2
  <2>9. l = 0 /\ MailOf[e] # NoValue => \A k \in DOMAIN leads : leads[k].mail # MailOf[e]
    <3> SUFFICES ASSUME l = 0, MailOf[e] # NoValue, NEW k \in DOMAIN leads,
                        leads[k].mail = MailOf[e]
                 PROVE  FALSE
      OBVIOUS
    <3>1. k \in Bearing("mail", MailOf[e])
      BY DEF Bearing
    <3> QED BY <1>4, <3>1 DEF Fitting
  <2>10. MailOf[e] \in Values
    BY <1>1, ValuesOfSales
  <2> HIDE DEF e, together
  <2>11. \A g \in Intakes, m \in Values : Creating(g, m)' /\ intake'[g].lead = 0 /\ ~Exempt(m)' =>
           \A k \in DOMAIN leads : leads[k].mail # m
    BY <2>2, <2>5, <2>6, <2>7, <2>9, <2>10 DEF Exempt, IntakeInv, ClonesInv
  <2>12. \A f, g \in Intakes, m \in Values : Creating(f, m)' /\ Creating(g, m)' /\ ~Exempt(m)' => f = g
    BY <2>5, <2>6, <2>7, <2>8, <2>10 DEF Exempt, IntakeInv, ClonesInv
  <2>13. NoClones'
    BY <1>1, <1>2 DEF IntakeInv, ClonesInv, NoClones
  <2> QED BY <1>1, <2>3, <2>4, <2>11, <2>12, <2>13 DEF IntakeInv, ClonesInv
<1>5. \A l \in Fitting(e) : l \in 0..Len(leads) /\ l # 0
  BY DEF Fitting, Bearing, IntakeInv, LeadsInv
<1>6. 0 \in 0..Len(leads)
  BY DEF IntakeInv, LeadsInv
<1> QED BY <1>3, <1>4, <1>5, <1>6 DEF FindLead

LEMMA WriteStep ==
  ASSUME IntakeInv, NEW h \in Intakes, WriteLead(h)
  PROVE  IntakeInv'
<1> DEFINE e == intake[h].sale
           l == intake[h].lead
           new == [mail |-> MailOf[e], phone |-> PhoneOf[e]]
<1>1. /\ e \in Sales /\ intake[h].pc = "write" /\ Begun(h) /\ l \in 0..Len(leads) /\ l \in Nat
      /\ UNCHANGED <<recorded, told, lost, mixed>> /\ Steps(h, "tell", e, l)
      /\ new \in Lead
  BY ValuesOfSales DEF WriteLead, IntakeInv, HandlersInv, LeadsInv, Begun, Intake, Lead
<1>2. /\ intake' \in [Intakes -> Intake]
      /\ intake'[h].pc = "tell" /\ intake'[h].sale = e
      /\ \A g \in Intakes \ {h} : intake'[g] = intake[g]
  BY <1>1, Stepping DEF IntakeInv
<1>3. HandlersInv' /\ ToldInv'
  BY <1>1, <1>2, GoingOn DEF Begun
<1>4. \A g \in Intakes, m \in Values : Creating(g, m)' => g # h /\ Creating(g, m) /\ intake'[g] = intake[g]
  BY <1>2 DEF Creating
<1>5. \A m : Exempt(m)' <=> Exempt(m)
  BY <1>1 DEF Exempt
<1>6. CASE l = 0
  <2>1. leads' = Append(leads, new) /\ new.mail = MailOf[e] /\ leads \in Seq(Lead)
    BY <1>6 DEF WriteLead, IntakeInv, LeadsInv
  <2>2. Creating(h, MailOf[e]) /\ intake[h].lead = 0
    BY <1>1, <1>6 DEF Creating
  <2> HIDE DEF new, e, l
  <2>3. /\ leads' \in Seq(Lead) /\ Len(leads') = Len(leads) + 1 /\ Len(leads) \in Nat
        /\ DOMAIN leads' = 1..(Len(leads) + 1) /\ DOMAIN leads = 1..Len(leads)
        /\ leads'[Len(leads) + 1] = new /\ \A k \in DOMAIN leads : leads'[k] = leads[k]
    BY <1>1, <2>1
  <2>4. \A k \in DOMAIN leads' : k = Len(leads) + 1 \/ k \in DOMAIN leads
    BY <2>3
  <2>5. MailOf[e] \in Values
    BY <1>1, ValuesOfSales
  <2>6. Exempt(MailOf[e]) \/ \A k \in DOMAIN leads : leads[k].mail # MailOf[e]
    BY <2>2, <2>5 DEF IntakeInv, ClonesInv
  <2>7. LeadsInv'
    BY <1>1, <1>2, <2>3 DEF IntakeInv, LeadsInv
  <2>8. NoClones'
    <3> SUFFICES ASSUME NEW j \in DOMAIN leads', NEW k \in DOMAIN leads', j # k,
                        leads'[j].mail = leads'[k].mail
                 PROVE  Exempt(leads'[j].mail)
      BY <1>1 DEF NoClones, Exempt
    <3>1. CASE j = Len(leads) + 1
      BY <2>1, <2>3, <2>4, <2>6, <3>1
    <3>2. CASE k = Len(leads) + 1
      BY <2>1, <2>3, <2>4, <2>6, <3>2
    <3>3. CASE j # Len(leads) + 1 /\ k # Len(leads) + 1
      BY <2>3, <2>4, <3>3 DEF IntakeInv, ClonesInv, NoClones, Exempt
    <3> QED BY <3>1, <3>2, <3>3
  <2>9. ASSUME NEW g \in Intakes, NEW m \in Values, Creating(g, m)', intake'[g].lead = 0, ~Exempt(m)',
               NEW k \in DOMAIN leads'
        PROVE  leads'[k].mail # m
    <3>1. g # h /\ Creating(g, m) /\ intake[g].lead = 0 /\ ~Exempt(m)
      BY <1>4, <1>5, <2>9
    <3>2. m # MailOf[e]
      BY <2>2, <3>1 DEF IntakeInv, ClonesInv
    <3>3. \A j \in DOMAIN leads : leads[j].mail # m
      BY <3>1 DEF IntakeInv, ClonesInv
    <3> QED BY <2>1, <2>3, <2>4, <3>2, <3>3
  <2>10. \A f, g \in Intakes, m \in Values : Creating(f, m)' /\ Creating(g, m)' /\ ~Exempt(m)' => f = g
    BY <1>4, <1>5 DEF IntakeInv, ClonesInv
  <2> QED BY <1>3, <2>7, <2>8, <2>9, <2>10 DEF IntakeInv, ClonesInv
<1>7. CASE l # 0
  <2>1. /\ leads' \in Seq(Lead) /\ DOMAIN leads' = DOMAIN leads /\ Len(leads') = Len(leads)
        /\ \A k \in DOMAIN leads : leads'[k].mail = leads[k].mail
    <3>1. CASE leads' = leads
      BY <3>1 DEF IntakeInv, LeadsInv
    <3>2. CASE leads' = [leads EXCEPT ![l].phone = PhoneOf[e]]
      <4> DEFINE x == [leads[l] EXCEPT !.phone = PhoneOf[e]]
      <4>1. leads \in Seq(Lead) /\ l \in 1..Len(leads) /\ leads[l] \in Lead
        BY <1>1, <1>7 DEF IntakeInv, LeadsInv
      <4>2. x \in Lead /\ x.mail = leads[l].mail
        BY <1>1, <4>1, ValuesOfSales DEF Lead
      <4>3. leads' = [leads EXCEPT ![l] = x]
        BY <3>2
      <4> HIDE DEF x, l
      <4> QED BY <4>1, <4>2, <4>3
    <3> QED BY <1>7, <3>1, <3>2 DEF WriteLead
  <2>2. LeadsInv'
    BY <1>1, <1>2, <2>1 DEF IntakeInv, LeadsInv
  <2>3. NoClones'
    BY <1>1, <2>1 DEF IntakeInv, ClonesInv, NoClones
  <2>4. \A g \in Intakes, m \in Values : Creating(g, m)' /\ intake'[g].lead = 0 /\ ~Exempt(m)' =>
          \A k \in DOMAIN leads' : leads'[k].mail # m
    BY <1>4, <1>5, <2>1 DEF IntakeInv, ClonesInv
  <2>5. \A f, g \in Intakes, m \in Values : Creating(f, m)' /\ Creating(g, m)' /\ ~Exempt(m)' => f = g
    BY <1>4, <1>5 DEF IntakeInv, ClonesInv
  <2> QED BY <1>3, <2>2, <2>3, <2>4, <2>5 DEF IntakeInv, ClonesInv
<1> QED BY <1>6, <1>7

LEMMA TellStep ==
  ASSUME IntakeInv, NEW h \in Intakes, Tell(h)
  PROVE  IntakeInv'
<1>1. HandlersInv' /\ ToldInv'
  BY Ending DEF Tell, Begun
<1>2. intake'[h].pc = "idle" /\ \A g \in Intakes \ {h} : intake'[g] = intake[g]
  BY Dropping DEF Tell, IntakeInv
<1>3. LeadsInv' /\ ClonesInv'
  BY <1>2, LeadsRest DEF Tell, IntakeInv, LeadsInv
<1> QED BY <1>1, <1>3 DEF IntakeInv

LEMMA RestartStep ==
  ASSUME IntakeInv, IntakeRestart
  PROVE  IntakeInv'
<1>1. /\ intake' \in [Intakes -> Intake] /\ UNCHANGED <<recorded, leads, told, mixed>>
      /\ \A h \in Intakes : intake'[h].pc = "idle"
  BY IdleIntakeType DEF IntakeRestart, IntakeInv
<1>2. \A h \in Intakes : ~Begun(h)' /\ \A m : ~Creating(h, m)'
  BY <1>1 DEF Begun, Creating
<1>3. HandlersInv' /\ LeadsInv'
  BY <1>1, <1>2 DEF IntakeInv, HandlersInv, LeadsInv
<1>4. ToldInv'
  <2>1. \A s : Having(s)' = {}
    BY <1>2 DEF Having
  <2>2. lost' \in [Sales -> Nat] /\ \A s \in Sales : lost'[s] = lost[s] + Cardinality(Having(s))
    BY HavingCounts DEF IntakeRestart, IntakeInv, ToldInv
  <2>3. ASSUME NEW s \in Sales
        PROVE  told'[s] + lost'[s] + Cardinality(Having(s)') = recorded'[s]
    <3>1. Cardinality(Having(s)') = 0
      BY <2>1, FS_EmptySet
    <3>2. told[s] + lost[s] + Cardinality(Having(s)) = recorded[s]
      BY DEF IntakeInv, ToldInv, ToldOnce
    <3>3. told[s] \in Nat /\ lost[s] \in Nat /\ Cardinality(Having(s)) \in Nat
      BY HavingCounts DEF IntakeInv, ToldInv
    <3> QED BY <1>1, <2>2, <3>1, <3>2, <3>3
  <2> QED BY <1>1, <2>2, <2>3 DEF IntakeInv, ToldInv, ToldOnce
<1>5. ClonesInv'
  BY <1>1, <1>2 DEF IntakeInv, ClonesInv, NoClones
<1> QED BY <1>3, <1>4, <1>5 DEF IntakeInv

LEMMA IntakeInvariant == IntakeSpec => []IntakeInv
<1>1. IntakeInit => IntakeInv
  <2> SUFFICES ASSUME IntakeInit PROVE IntakeInv
    OBVIOUS
  <2>1. \A h \in Intakes : intake[h].pc = "idle" /\ ~Begun(h) /\ \A m : ~Creating(h, m)
    BY IdleIntakeType DEF IntakeInit, Begun, Creating
  <2>2. \A e : Having(e) = {}
    BY <2>1 DEF Having
  <2>4. \A e : Cardinality(Having(e)) = 0
    BY <2>2, FS_EmptySet
  <2>5. HandlersInv
    BY IdleIntakeType DEF IntakeInit, HandlersInv
  <2>6. ToldInv
    BY <2>4 DEF IntakeInit, ToldInv, ToldOnce
  <2>3. LeadsInv /\ ClonesInv
    BY <2>1 DEF IntakeInit, LeadsInv, ClonesInv, NoClones
  <2> QED BY <2>3, <2>5, <2>6 DEF IntakeInv
<1>2. IntakeInv /\ [IntakeNext]_intakeVars => IntakeInv'
  <2> SUFFICES ASSUME IntakeInv, [IntakeNext]_intakeVars PROVE IntakeInv'
    OBVIOUS
  <2>1. CASE UNCHANGED intakeVars
    BY <2>1 DEF intakeVars, IntakeInv, HandlersInv, ToldInv, ToldOnce, LeadsInv, ClonesInv, NoClones,
       Begun, Having, Creating, Exempt
  <2> QED BY <2>1, DeliverStep, RecordStep, FindStep, WriteStep, TellStep, RestartStep DEF IntakeNext
<1> QED BY <1>1, <1>2, PTL DEF IntakeSpec

\* The type invariant of the model of the reported sales (botpress_routes.py:297).
THEOREM IntakeTypeCorrect == IntakeSpec => []IntakeTypeOK
<1>1. IntakeInv => IntakeTypeOK
  BY DEF IntakeInv, HandlersInv, ToldInv, LeadsInv, Lead, IntakeTypeOK
<1> QED BY <1>1, IntakeInvariant, PTL

\* However often and however many together sales are reported, each record is told of once or
\* lost to a restart or to two leads that fit, a report with an event id has one record, and
\* an address gets one lead unless two of its reports met (botpress_routes.py:37, 311, 395).
THEOREM IntakeCorrect == IntakeSpec => []IntakeSafe
<1>1. IntakeInv => IntakeSafe
  BY DEF IntakeInv, ToldInv, ClonesInv, IntakeSafe
<1> QED BY <1>1, IntakeInvariant, PTL

-----------------------------------------------------------------------------
(***************************************************************************)
(* Subscribers' chats.                                                     *)
(***************************************************************************)

\* What a worker does is fit for its job: who answers has no draft yet, and who is done with
\* a draft holds nothing.
WorkerOK(x) ==
  /\ x \in Worker
  /\ x.pc = "idle" => x.job = "none" /\ x.reply = 0
  /\ x.pc = "answer" => x.job = "message" /\ x.to \in Contacts /\ x.reply = 0 /\ ~x.handoff
  /\ x.pc = "send" => x.reply \in Replies /\ x.verdict \in {"none", "pending"}
  /\ x.verdict # "none" => x.reply \in Replies
  /\ x.job \in {"message", "release"} => x.to \in Contacts
  /\ x.job = "message" /\ x.handoff => x.reply \in Replies

\* A worker's draft has been written, for the contact it answers.
DraftFits(x, drafts) ==
  x.reply \in Replies => /\ drafts[x.reply].status # "none"
                         /\ x.job = "message" => drafts[x.reply].to = x.to

TenantShape ==
  /\ TenantTypeOK
  /\ \A w \in Workers : WorkerOK(worker[w]) /\ DraftFits(worker[w], reply)

\* Drafts are numbered from one; zero is none of them.
LEMMA Answering ==
  /\ 0 \notin Replies /\ Replies \subseteq 0..MaxReplies /\ \A d \in 0..MaxReplies : d # 0 => d \in Replies
  /\ 0 \in 0..MaxReplies /\ 0 \in 0..MaxCalls /\ 0 \in 0..MaxTurns
BY TenantAssumption DEF Replies

\* A worker at rest holds no draft.
LEMMA FreeWorkerOK == WorkerOK(FreeWorker) /\ FreeWorker.reply \notin Replies
BY Answering DEF WorkerOK, FreeWorker, Worker

LEMMA TenantShapeInit == TenantInit => TenantShape
<1> SUFFICES ASSUME TenantInit PROVE TenantShape
  OBVIOUS
<1>1. worker \in [Workers -> Worker] /\ \A w \in Workers : WorkerOK(worker[w]) /\ DraftFits(worker[w], reply)
  BY FreeWorkerOK DEF TenantInit, WorkerOK, DraftFits
<1>2. reply \in [Replies -> Reply]
  BY DEF TenantInit, NoReply, Reply
<1> QED BY <1>1, <1>2, Answering DEF TenantInit, TenantShape, TenantTypeOK

\* A step moves one worker, and leaves the drafts of the others to whom they go.
LEMMA WorkerMoves ==
  ASSUME TenantShape, NEW w \in Workers, NEW x, WorkerOK(x), DraftFits(x, reply'), Working(w, x),
         \A d \in Replies : reply[d].status # "none" => reply'[d].status # "none" /\ reply'[d].to = reply[d].to
  PROVE  worker' \in [Workers -> Worker] /\ \A v \in Workers : WorkerOK(worker'[v]) /\ DraftFits(worker'[v], reply')
<1>1. worker' = [worker EXCEPT ![w] = x] /\ worker \in [Workers -> Worker] /\ x \in Worker
  BY DEF TenantShape, TenantTypeOK, Working, WorkerOK
<1>2. ASSUME NEW v \in Workers, v # w PROVE DraftFits(worker'[v], reply')
  BY <1>1, <1>2 DEF TenantShape, DraftFits
<1> QED BY <1>1, <1>2 DEF TenantShape, DraftFits

\* The first draft that is free is written, by a worker who held none.
LEMMA DraftWritten ==
  ASSUME TenantShape, NEW d \in Replies, FirstFree(d), NEW y \in Reply, y.status # "none",
         reply' = [reply EXCEPT ![d] = y]
  PROVE  /\ reply' \in [Replies -> Reply] /\ reply'[d] = y
         /\ \A e \in Replies : reply[e].status # "none" => reply'[e].status # "none" /\ reply'[e].to = reply[e].to
BY DEF TenantShape, TenantTypeOK, FirstFree

\* The types, and what workers hold, last through every step.
LEMMA TenantShapeStep ==
  ASSUME TenantShape, [TenantNext]_tenantVars PROVE TenantShape'
<1> DEFINE Settings == replyMode \in {"off", "review", "auto"} /\ token \in BOOLEAN
           Chats == contact \in [Contacts -> [optOut : BOOLEAN, handoff : BOOLEAN]]
           Counters == calls \in 0..MaxCalls /\ turns \in 0..MaxTurns
           History == /\ sent \in [Replies -> Nat] /\ promised \subseteq Contacts
                      /\ forgotten \subseteq Contacts /\ disputed \subseteq Replies
           Drafts == reply \in [Replies -> Reply]
           WorkersOK == worker \in [Workers -> Worker] /\ \A w \in Workers : WorkerOK(worker[w]) /\ DraftFits(worker[w], reply)
<1>0. Settings /\ Chats /\ Counters /\ History /\ Drafts /\ WorkersOK
  BY DEF TenantShape, TenantTypeOK
<1>a. SUFFICES Settings' /\ Chats' /\ Counters' /\ History' /\ Drafts' /\ WorkersOK'
  BY DEF TenantShape, TenantTypeOK
<1>b. ASSUME calls < MaxCalls PROVE calls + 1 \in 0..MaxCalls
  BY <1>0, <1>b, TenantAssumption
<1>1. ASSUME NEW w \in Workers, NEW c \in Contacts, NEW text \in {"stop", "human", "ask"}, Hear(w, c, text)
      PROVE  Settings' /\ Chats' /\ Counters' /\ History' /\ Drafts' /\ WorkersOK'
  <2> DEFINE x == [FreeWorker EXCEPT !.job = "message", !.pc = IF text = "stop" THEN "commit" ELSE "answer",
                     !.to = c, !.text = text, !.auto = replyMode = "auto", !.token = token]
  <2> DEFINE auto == replyMode = "auto"
             pc == IF text = "stop" THEN "commit" ELSE "answer"
  <2>a. auto \in BOOLEAN /\ token \in BOOLEAN /\ pc \in {"commit", "answer"}
    BY <1>0
  <2>1. WorkerOK(x) /\ DraftFits(x, reply')
    <3>1. x \in Worker
      BY <2>a, Answering DEF FreeWorker, Worker
    <3>2. x.job = "message" /\ x.pc \in {"commit", "answer"} /\ x.to = c /\ x.handoff = FALSE
      BY DEF FreeWorker
    <3>3. x.reply = 0 /\ x.verdict = "none"
      BY DEF FreeWorker
    <3> HIDE DEF x
    <3> QED BY <3>1, <3>2, <3>3, Answering DEF WorkerOK, DraftFits
  <2>2. WorkersOK'
    BY <1>1, <2>1, WorkerMoves DEF Hear, tenantRows
  <2> QED BY <1>0, <1>1, <1>b, <2>2 DEF Hear, Called, tenantRows, tenantHistory
<1>2. ASSUME NEW w \in Workers, Answer(w)
      PROVE  Settings' /\ Chats' /\ Counters' /\ History' /\ Drafts' /\ WorkersOK'
  <2>1. PICK d \in Replies, handoff \in BOOLEAN :
          /\ FirstFree(d)
          /\ reply' = [reply EXCEPT ![d] = [status |-> "open", to |-> worker[w].to,
                                            kind |-> IF handoff THEN "handoff" ELSE "reply"]]
          /\ Working(w, [worker[w] EXCEPT !.reply = d, !.verdict = "pending", !.handoff = handoff,
                           !.pc = IF worker[w].auto /\ worker[w].token THEN "send" ELSE "commit"])
    BY <1>2 DEF Answer
  <2> DEFINE x == [worker[w] EXCEPT !.reply = d, !.verdict = "pending", !.handoff = handoff,
                     !.pc = IF worker[w].auto /\ worker[w].token THEN "send" ELSE "commit"]
             y == [status |-> "open", to |-> worker[w].to, kind |-> IF handoff THEN "handoff" ELSE "reply"]
  <2>2. y \in Reply /\ y.status # "none" /\ y.to = worker[w].to
    BY <1>0 DEF Reply, Worker
  <2>3. /\ Drafts' /\ reply'[d] = y
        /\ \A e \in Replies : reply[e].status # "none" => reply'[e].status # "none" /\ reply'[e].to = reply[e].to
    <3> HIDE DEF y
    <3> QED BY <2>1, <2>2, DraftWritten DEF y
  <2>4. WorkerOK(x) /\ x.reply = d /\ x.to = worker[w].to
    <3> DEFINE pc == IF worker[w].auto /\ worker[w].token THEN "send" ELSE "commit"
    <3>0. pc \in {"send", "commit"}
      OBVIOUS
    <3> HIDE DEF pc
    <3>1. worker[w] \in Worker /\ worker[w].job = "message" /\ worker[w].to \in Contacts
      BY <1>0, <1>2 DEF Answer, Step, WorkerOK
    <3>2. x \in Worker
      BY <3>0, <3>1, Answering DEF Worker, pc
    <3>3. x.reply = d /\ x.to = worker[w].to /\ x.pc = pc /\ x.job = "message" /\ x.verdict = "pending"
      BY <3>1 DEF Worker, pc
    <3> HIDE DEF x
    <3> QED BY <3>0, <3>1, <3>2, <3>3, Answering DEF WorkerOK
  <2>5. DraftFits(x, reply')
    <3> HIDE DEF x, y
    <3> QED BY <2>2, <2>3, <2>4 DEF DraftFits
  <2>6. WorkersOK'
    <3>1. Working(w, x)
      BY <2>1
    <3> HIDE DEF x, y
    <3> QED BY <2>3, <2>4, <2>5, <3>1, WorkerMoves
  <2> QED BY <1>0, <1>2, <2>3, <2>6 DEF Answer, tenantHistory
<1>3. ASSUME NEW w \in Workers, Send(w) \/ SendFails(w)
      PROVE  Settings' /\ Chats' /\ Counters' /\ History' /\ Drafts' /\ WorkersOK'
  <2>1. PICK verdict \in {"sent", "failed", worker[w].verdict} :
          Working(w, [worker[w] EXCEPT !.pc = "commit", !.verdict = verdict])
    BY <1>3 DEF Send, SendFails
  <2> DEFINE x == [worker[w] EXCEPT !.pc = "commit", !.verdict = verdict]
  <2>2. worker[w].reply \in Replies /\ WorkerOK(x)
    BY <1>0, <1>3 DEF Send, SendFails, Step, WorkerOK, Worker
  <2>3. reply' = reply
    BY <1>3 DEF Send, SendFails, tenantRows
  <2>4. DraftFits(x, reply')
    BY <1>0, <2>2, <2>3 DEF DraftFits, Worker
  <2>5. WorkersOK'
    BY <2>1, <2>2, <2>3, <2>4, WorkerMoves
  <2>6. reply[worker[w].reply].to \in Contacts \/ worker[w].job # "message"
    BY <1>0, <2>2 DEF DraftFits, WorkerOK
  <2>7. History'
    BY <1>0, <1>3, <2>2, <2>6 DEF Send, SendFails, Posted, tenantHistory
  <2> QED BY <1>0, <1>3, <2>3, <2>5, <2>7 DEF Send, SendFails, tenantRows
<1>4. ASSUME NEW w \in Workers, FinishWork(w)
      PROVE  Settings' /\ Chats' /\ Counters' /\ History' /\ Drafts' /\ WorkersOK'
  <2>1. /\ Drafts' /\ \A d \in Replies : reply[d].status # "none" => reply'[d].status # "none" /\ reply'[d].to = reply[d].to
    <3>1. worker[w].verdict # "none" => worker[w].reply \in Replies
      BY <1>0 DEF WorkerOK
    <3>2. worker[w].verdict \in {"none", "pending", "sent", "failed", "rejected"}
      BY <1>0 DEF Worker
    <3> QED BY <1>0, <1>4, <3>1, <3>2 DEF FinishWork, Reply
  <2>2. WorkersOK'
    <3>1. DraftFits(FreeWorker, reply')
      BY FreeWorkerOK DEF DraftFits
    <3> QED BY <1>4, <2>1, <3>1, FreeWorkerOK, WorkerMoves DEF FinishWork
  <2>3. Chats'
    <3>1. worker[w].text \in {"stop", "human", "ask"} /\ worker[w].handoff \in BOOLEAN
      BY <1>0 DEF Worker
    <3>2. worker[w].job \in {"message", "release"} => worker[w].to \in Contacts
      BY <1>0 DEF WorkerOK
    <3> QED BY <1>0, <1>4, <3>1, <3>2 DEF FinishWork, Kept
  <2> QED BY <1>0, <1>4, <2>1, <2>2, <2>3 DEF FinishWork
<1>5. ASSUME NEW w \in Workers, NEW d \in Replies, Approval(w, d) \/ Rejection(w, d)
      PROVE  Settings' /\ Chats' /\ Counters' /\ History' /\ Drafts' /\ WorkersOK'
  <2> DEFINE x == [FreeWorker EXCEPT !.job = "approve", !.to = reply[d].to, !.reply = d,
                     !.pc = IF token THEN "send" ELSE "commit"]
             y == [FreeWorker EXCEPT !.job = "reject", !.reply = d, !.verdict = "rejected", !.pc = "commit"]
  <2>0. reply[d].to \in Contacts \cup {NoContact} /\ reply[d].status # "none" /\ reply' = reply
    BY <1>0, <1>5 DEF Approval, Rejection, Undecided, Reply, tenantRows
  <2>1. WorkerOK(x) /\ DraftFits(x, reply')
    BY <2>0, FreeWorkerOK, Answering DEF WorkerOK, DraftFits, Worker, FreeWorker
  <2>2. WorkerOK(y) /\ DraftFits(y, reply')
    BY <2>0, FreeWorkerOK, Answering DEF WorkerOK, DraftFits, Worker, FreeWorker
  <2>3. Working(w, x) \/ Working(w, y)
    BY <1>5 DEF Approval, Rejection
  <2>4. WorkersOK'
    <3> HIDE DEF x, y
    <3> QED BY <2>0, <2>1, <2>2, <2>3, WorkerMoves
  <2> QED BY <1>0, <1>5, <1>b, <2>4 DEF Approval, Rejection, Dispute, Called, tenantRows
<1>6. ASSUME NEW w \in Workers, NEW c \in Contacts, StaffReply(w, c)
      PROVE  Settings' /\ Chats' /\ Counters' /\ History' /\ Drafts' /\ WorkersOK'
  <2>1. PICK d \in Replies :
          /\ FirstFree(d) /\ reply' = [reply EXCEPT ![d] = [status |-> "open", to |-> c, kind |-> "human"]]
          /\ Working(w, [FreeWorker EXCEPT !.job = "staff", !.to = c, !.reply = d, !.verdict = "pending",
                           !.pc = IF token THEN "send" ELSE "commit"])
    BY <1>6 DEF StaffReply
  <2> DEFINE x == [FreeWorker EXCEPT !.job = "staff", !.to = c, !.reply = d, !.verdict = "pending",
                     !.pc = IF token THEN "send" ELSE "commit"]
             y == [status |-> "open", to |-> c, kind |-> "human"]
  <2>2. y \in Reply /\ y.status # "none"
    BY DEF Reply
  <2>3. /\ Drafts' /\ reply'[d] = y
        /\ \A e \in Replies : reply[e].status # "none" => reply'[e].status # "none" /\ reply'[e].to = reply[e].to
    <3> HIDE DEF y
    <3> QED BY <2>1, <2>2, DraftWritten DEF y
  <2>4. WorkerOK(x) /\ x.reply = d /\ x.job = "staff"
    BY FreeWorkerOK, Answering DEF WorkerOK, Worker, FreeWorker
  <2>5. WorkersOK'
    <3>1. Working(w, x)
      BY <2>1
    <3> HIDE DEF x, y
    <3>2. DraftFits(x, reply')
      BY <2>2, <2>3, <2>4 DEF DraftFits
    <3> QED BY <2>3, <2>4, <3>1, <3>2, WorkerMoves
  <2> QED BY <1>0, <1>6, <1>b, <2>3, <2>5 DEF StaffReply, Called, tenantHistory
<1>7. ASSUME NEW w \in Workers, NEW c \in Contacts, Release(w, c)
      PROVE  Settings' /\ Chats' /\ Counters' /\ History' /\ Drafts' /\ WorkersOK'
  <2> DEFINE x == [FreeWorker EXCEPT !.job = "release", !.to = c, !.handoff = contact[c].handoff, !.pc = "commit"]
  <2>1. WorkerOK(x) /\ DraftFits(x, reply')
    BY <1>0, FreeWorkerOK, Answering DEF WorkerOK, DraftFits, Worker, FreeWorker
  <2>2. WorkersOK'
    BY <1>7, <2>1, WorkerMoves DEF Release, tenantRows
  <2> QED BY <1>0, <1>7, <1>b, <2>2 DEF Release, Called, tenantRows, tenantHistory
<1>8. ASSUME (\E m \in {"off", "review", "auto"} : SetReplyMode(m)) \/ SetToken
      PROVE  Settings' /\ Chats' /\ Counters' /\ History' /\ Drafts' /\ WorkersOK'
  <2>1. turns' \in 0..MaxTurns
    BY <1>0, <1>8, TenantAssumption DEF SetReplyMode, SetToken
  <2> QED BY <1>0, <1>8, <2>1 DEF SetReplyMode, SetToken, tenantHistory, DraftFits
<1>9. CASE TenantRestart
  <2>1. WorkersOK'
    BY <1>9, FreeWorkerOK DEF TenantRestart, WorkerOK, DraftFits
  <2>2. Drafts'
    BY <1>0, <1>9 DEF TenantRestart, Reply
  <2> QED BY <1>0, <1>9, <2>1, <2>2 DEF TenantRestart
<1>10. CASE UNCHANGED tenantVars
  BY <1>0, <1>10 DEF tenantVars, DraftFits
<1> QED BY <1>1, <1>2, <1>3, <1>4, <1>5, <1>6, <1>7, <1>8, <1>9, <1>10 DEF TenantNext

-----------------------------------------------------------------------------
(* A promise of a human is kept, or about to be. *)

LEMMA HandoffStep ==
  ASSUME TenantShape, HandoffKept, [TenantNext]_tenantVars PROVE HandoffKept'
<1>0. /\ worker \in [Workers -> Worker] /\ contact \in [Contacts -> [optOut : BOOLEAN, handoff : BOOLEAN]]
      /\ promised \subseteq Contacts /\ \A w \in Workers : WorkerOK(worker[w]) /\ DraftFits(worker[w], reply)
  BY DEF TenantShape, TenantTypeOK
<1>a. ASSUME UNCHANGED <<contact, promised, forgotten>>,
             \A c \in Contacts, w \in Workers : Promising(w, c) => Promising(w, c)'
      PROVE  HandoffKept'
  BY <1>0, <1>a DEF HandoffKept
\* A worker who has promised nothing yet moves on, or one who has keeps to it.
<1>b. ASSUME NEW w \in Workers, NEW x, Working(w, x), UNCHANGED <<contact, promised, forgotten>>,
             \A c \in Contacts : Promising(w, c) => x.job = "message" /\ x.to = c /\ x.handoff
      PROVE  HandoffKept'
  BY <1>0, <1>b DEF HandoffKept, Promising, Working
<1>c. ASSUME NEW w \in Workers, Step(w, "idle") \/ Step(w, "answer")
      PROVE  \A c \in Contacts : ~Promising(w, c)
  BY <1>0, <1>c DEF Step, Promising, WorkerOK
<1>1. ASSUME NEW w \in Workers, NEW c \in Contacts,
             (\E text \in {"stop", "human", "ask"} : Hear(w, c, text)) \/ StaffReply(w, c) \/ Release(w, c)
      PROVE  HandoffKept'
  <2>1. Step(w, "idle") /\ UNCHANGED <<contact, promised, forgotten>> /\ \E x : Working(w, x)
    BY <1>1 DEF Hear, StaffReply, Release, Called, tenantRows, tenantHistory
  <2> QED BY <1>b, <1>c, <2>1
<1>2. ASSUME NEW w \in Workers, NEW d \in Replies, Approval(w, d) \/ Rejection(w, d) PROVE HandoffKept'
  <2>1. Step(w, "idle") /\ UNCHANGED <<contact, promised, forgotten>> /\ \E x : Working(w, x)
    BY <1>2 DEF Approval, Rejection, Called, tenantRows
  <2> QED BY <1>b, <1>c, <2>1
<1>3. ASSUME NEW w \in Workers, Answer(w) PROVE HandoffKept'
  <2>1. Step(w, "answer") /\ UNCHANGED <<contact, promised, forgotten>> /\ \E x : Working(w, x)
    BY <1>3 DEF Answer, tenantHistory
  <2> QED BY <1>b, <1>c, <2>1
<1>4. ASSUME NEW w \in Workers, Send(w) \/ SendFails(w) PROVE HandoffKept'
  <2>1. PICK verdict : Working(w, [worker[w] EXCEPT !.pc = "commit", !.verdict = verdict])
    BY <1>4 DEF Send, SendFails
  <2>2. /\ worker[w].reply \in Replies /\ UNCHANGED <<contact, forgotten>>
        /\ promised' \subseteq promised \cup {c \in {reply[worker[w].reply].to} : worker[w].job = "message" /\ worker[w].handoff}
    BY <1>0, <1>4 DEF Send, SendFails, Step, Posted, WorkerOK, tenantRows, tenantHistory
  <2>3. \A v \in Workers, c \in Contacts : Promising(v, c)' <=> Promising(v, c)
    BY <1>0, <2>1 DEF Promising, Working, Worker
  <2>4. \A c \in promised' : c \in promised \/ Promising(w, c)
    BY <1>0, <2>2 DEF DraftFits, Promising
  <2> QED BY <1>0, <2>2, <2>3, <2>4 DEF HandoffKept, DraftFits, WorkerOK
<1>5. ASSUME NEW w \in Workers, FinishWork(w) PROVE HandoffKept'
  <2>0. /\ worker[w].job \in {"message", "release"} => worker[w].to \in Contacts
        /\ worker[w].handoff \in BOOLEAN /\ worker[w].text \in {"stop", "human", "ask"}
    BY <1>0 DEF WorkerOK, Worker
  <2>1. ASSUME NEW c \in promised', c \notin forgotten'
        PROVE  contact'[c].handoff \/ \E v \in Workers : Promising(v, c)'
    <3>1. c \in promised /\ c \in Contacts /\ c \notin forgotten /\ contact' = Kept(w)
          /\ ~(worker[w].job = "release" /\ worker[w].handoff /\ worker[w].to = c)
      BY <1>0, <1>5, <2>1 DEF FinishWork
    <3>2. contact[c].handoff => contact'[c].handoff
      BY <1>0, <2>0, <3>1 DEF Kept
    <3>3. ASSUME Promising(w, c) PROVE contact'[c].handoff
      BY <1>0, <2>0, <3>1, <3>3 DEF Kept, Promising
    <3>4. ASSUME NEW v \in Workers, v # w, Promising(v, c) PROVE Promising(v, c)'
      BY <1>0, <1>5, <3>4 DEF FinishWork, Working, Promising
    <3> QED BY <3>1, <3>2, <3>3, <3>4 DEF HandoffKept
  <2> QED BY <2>1 DEF HandoffKept
<1>6. ASSUME (\E m \in {"off", "review", "auto"} : SetReplyMode(m)) \/ SetToken PROVE HandoffKept'
  BY <1>6, <1>a DEF SetReplyMode, SetToken, tenantHistory, Promising
<1>7. CASE TenantRestart
  BY <1>0, <1>7 DEF TenantRestart, HandoffKept
<1>8. CASE UNCHANGED tenantVars
  BY <1>8, <1>a DEF tenantVars, Promising
<1> QED BY <1>1, <1>2, <1>3, <1>4, <1>5, <1>6, <1>7, <1>8 DEF TenantNext

-----------------------------------------------------------------------------
(* A reply that one worker at a time decides goes out once. *)

Decides(w, d) == worker[w].reply = d

\* Who holds an undisputed draft holds it alone; what it has sent is what its verdict says.
DraftOK(d) ==
  /\ \A v, w \in Workers : Decides(v, d) /\ Decides(w, d) => v = w
  /\ sent[d] <= 1
  /\ reply[d].status \in {"none", "open", "pending", "rejected", "undone"} /\ sent[d] # 0
        => \E w \in Workers : Decides(w, d)
  /\ reply[d].status = "sent" => sent[d] = 1
  /\ \A w \in Workers : Decides(w, d) =>
       /\ reply[d].status \in {"open", "pending"}
       /\ worker[w].verdict = "sent" => sent[d] = 1
       /\ worker[w].verdict \in {"none", "pending", "rejected"} => sent[d] = 0

DraftsInv == \A d \in Replies : d \in disputed \/ DraftOK(d)

LEMMA DraftsInit == TenantInit => DraftsInv
BY Answering DEF TenantInit, DraftsInv, DraftOK, Decides, NoReply, FreeWorker

\* The workers of the webhook and of the portal keep it.
LEMMA DraftsStep ==
  ASSUME TenantShape, DraftsInv, [TenantNext]_tenantVars PROVE DraftsInv'
<1>0. /\ worker \in [Workers -> Worker] /\ reply \in [Replies -> Reply] /\ sent \in [Replies -> Nat]
      /\ \A w \in Workers : WorkerOK(worker[w]) /\ DraftFits(worker[w], reply)
  BY DEF TenantShape, TenantTypeOK
<1>a. FreeWorker.reply \notin Replies
  BY FreeWorkerOK
<1>z. SUFFICES ASSUME NEW d \in Replies, d \notin disputed' PROVE DraftOK(d)'
  BY DEF DraftsInv
<1>d. d \notin disputed /\ DraftOK(d)
  <2>1. disputed \subseteq disputed'
    BY DEF TenantNext, Hear, StaffReply, Release, Approval, Rejection, Dispute, Answer, Send, SendFails, FinishWork,
       SetReplyMode, SetToken, TenantRestart, tenantVars, tenantHistory
  <2> QED BY <1>z, <2>1 DEF DraftsInv
\* The worker who moves has nothing to do with this draft, before and after.
<1>b. ASSUME NEW w \in Workers, NEW x, Working(w, x), x.reply # d, ~Decides(w, d), reply'[d] = reply[d], sent'[d] = sent[d]
      PROVE  DraftOK(d)'
  BY <1>0, <1>b, <1>d DEF DraftOK, Decides, Working
<1>c. ASSUME NEW w \in Workers, Step(w, "idle") \/ Step(w, "answer") PROVE ~Decides(w, d)
  BY <1>0, <1>c, Answering DEF Step, Decides, WorkerOK
<1>1. ASSUME NEW w \in Workers, NEW c \in Contacts,
             (\E text \in {"stop", "human", "ask"} : Hear(w, c, text)) \/ Release(w, c)
      PROVE  DraftOK(d)'
  <2> DEFINE x(text) == [FreeWorker EXCEPT !.job = "message", !.pc = IF text = "stop" THEN "commit" ELSE "answer",
                           !.to = c, !.text = text, !.auto = replyMode = "auto", !.token = token]
             y == [FreeWorker EXCEPT !.job = "release", !.to = c, !.handoff = contact[c].handoff, !.pc = "commit"]
  <2>0. (\A text : x(text).reply = FreeWorker.reply) /\ y.reply = FreeWorker.reply
    BY DEF FreeWorker
  <2>a. Working(w, y) \/ \E text : Working(w, x(text))
    BY <1>1 DEF Hear, Release
  <2> HIDE DEF x, y
  <2>1. Step(w, "idle") /\ UNCHANGED <<reply, sent>> /\ \E z : Working(w, z) /\ z.reply = FreeWorker.reply
    BY <1>1, <2>0, <2>a DEF Hear, Release, Called, tenantRows, tenantHistory
  <2> QED BY <1>a, <1>b, <1>c, <2>1
<1>2. ASSUME NEW w \in Workers, NEW x, NEW e \in Replies, NEW y, FirstFree(e), reply' = [reply EXCEPT ![e] = y],
             y.status = "open", Working(w, x), x.reply = e, x.verdict = "pending", sent' = sent,
             Step(w, "idle") \/ Step(w, "answer")
      PROVE  DraftOK(d)'
  <2>1. CASE e # d
    BY <1>0, <1>2, <1>b, <1>c, <2>1
  <2>2. CASE e = d
    <3>1. reply[d].status = "none" /\ \A v \in Workers : ~Decides(v, d)
      BY <1>0, <1>2, <2>2 DEF FirstFree, Decides, DraftFits
    <3>2. sent'[d] = 0 /\ reply'[d].status = "open"
      BY <1>0, <1>2, <1>d, <2>2, <3>1 DEF DraftOK
    <3>3. \A v \in Workers : Decides(v, d)' => v = w /\ worker'[v].verdict = "pending"
      BY <1>0, <1>2, <3>1 DEF Decides, Working
    <3> QED BY <3>2, <3>3 DEF DraftOK
  <2> QED BY <2>1, <2>2
<1>3. ASSUME NEW w \in Workers, Answer(w) PROVE DraftOK(d)'
  <2>1. PICK e \in Replies, handoff \in BOOLEAN :
          /\ FirstFree(e)
          /\ reply' = [reply EXCEPT ![e] = [status |-> "open", to |-> worker[w].to,
                                            kind |-> IF handoff THEN "handoff" ELSE "reply"]]
          /\ Working(w, [worker[w] EXCEPT !.reply = e, !.verdict = "pending", !.handoff = handoff,
                           !.pc = IF worker[w].auto /\ worker[w].token THEN "send" ELSE "commit"])
    BY <1>3 DEF Answer
  <2> DEFINE x == [worker[w] EXCEPT !.reply = e, !.verdict = "pending", !.handoff = handoff,
                     !.pc = IF worker[w].auto /\ worker[w].token THEN "send" ELSE "commit"]
             y == [status |-> "open", to |-> worker[w].to, kind |-> IF handoff THEN "handoff" ELSE "reply"]
  <2>2. worker[w] \in Worker
    BY <1>0
  <2>3. x.reply = e /\ x.verdict = "pending" /\ y.status = "open"
    BY <2>2 DEF Worker
  <2>4. reply' = [reply EXCEPT ![e] = y] /\ Working(w, x)
    BY <2>1
  <2>5. sent' = sent /\ Step(w, "answer")
    BY <1>3 DEF Answer, tenantHistory
  <2> HIDE DEF x, y
  <2> QED BY <1>2, <2>1, <2>3, <2>4, <2>5
<1>4. ASSUME NEW w \in Workers, NEW c \in Contacts, StaffReply(w, c) PROVE DraftOK(d)'
  <2>1. PICK e \in Replies :
          /\ FirstFree(e) /\ reply' = [reply EXCEPT ![e] = [status |-> "open", to |-> c, kind |-> "human"]]
          /\ Working(w, [FreeWorker EXCEPT !.job = "staff", !.to = c, !.reply = e, !.verdict = "pending",
                           !.pc = IF token THEN "send" ELSE "commit"])
    BY <1>4 DEF StaffReply
  <2> DEFINE x == [FreeWorker EXCEPT !.job = "staff", !.to = c, !.reply = e, !.verdict = "pending",
                     !.pc = IF token THEN "send" ELSE "commit"]
             y == [status |-> "open", to |-> c, kind |-> "human"]
  <2>2. x.reply = e /\ x.verdict = "pending" /\ y.status = "open"
    BY DEF FreeWorker
  <2>3. reply' = [reply EXCEPT ![e] = y] /\ Working(w, x)
    BY <2>1
  <2>4. sent' = sent /\ Step(w, "idle")
    BY <1>4 DEF StaffReply, Called, tenantHistory
  <2> HIDE DEF x, y
  <2> QED BY <1>2, <2>1, <2>2, <2>3, <2>4
<1>5. ASSUME NEW w \in Workers, NEW e \in Replies, Approval(w, e) \/ Rejection(w, e) PROVE DraftOK(d)'
  <2>1. /\ Step(w, "idle") /\ UNCHANGED <<reply, sent>> /\ reply[e].status = "pending"
        /\ disputed' = disputed \cup {f \in {e} : \E v \in Workers : worker[v].reply = f}
    BY <1>5 DEF Approval, Rejection, Called, Undecided, Dispute, tenantRows
  <2>2. PICK x : Working(w, x) /\ x.reply = e /\ x.verdict \in {"none", "rejected"}
    <3>1. [FreeWorker EXCEPT !.job = "approve", !.to = reply[e].to, !.reply = e,
                             !.pc = IF token THEN "send" ELSE "commit"].reply = e
          /\ [FreeWorker EXCEPT !.job = "approve", !.to = reply[e].to, !.reply = e,
                             !.pc = IF token THEN "send" ELSE "commit"].verdict = "none"
      BY DEF FreeWorker
    <3>2. [FreeWorker EXCEPT !.job = "reject", !.reply = e, !.verdict = "rejected", !.pc = "commit"].reply = e
          /\ [FreeWorker EXCEPT !.job = "reject", !.reply = e, !.verdict = "rejected", !.pc = "commit"].verdict = "rejected"
      BY DEF FreeWorker
    <3> QED BY <1>5, <3>1, <3>2 DEF Approval, Rejection
  <2>3. CASE e # d
    BY <1>b, <1>c, <2>1, <2>2, <2>3
  <2>4. CASE e = d
    <3>1. \A v \in Workers : ~Decides(v, d)
      BY <1>z, <2>1, <2>4 DEF Decides
    <3>2. sent'[d] = 0 /\ reply'[d].status = "pending"
      BY <1>0, <1>d, <2>1, <2>4, <3>1 DEF DraftOK
    <3>3. \A v \in Workers : Decides(v, d)' => v = w /\ worker'[v].verdict \in {"none", "rejected"}
      BY <1>0, <2>2, <3>1 DEF Decides, Working
    <3> QED BY <3>2, <3>3 DEF DraftOK
  <2> QED BY <2>3, <2>4
<1>6. ASSUME NEW w \in Workers, Send(w) \/ SendFails(w) PROVE DraftOK(d)'
  <2>0. Step(w, "send") /\ worker[w].reply \in Replies /\ worker[w].verdict \in {"none", "pending"} /\ reply' = reply
    BY <1>0, <1>6 DEF Send, SendFails, Step, WorkerOK, tenantRows
  <2>1. PICK verdict \in {"sent", "failed", worker[w].verdict} :
          Working(w, [worker[w] EXCEPT !.pc = "commit", !.verdict = verdict])
    BY <1>6 DEF Send, SendFails
  <2>2. \A v \in Workers, e \in Replies : Decides(v, e)' <=> Decides(v, e)
    BY <1>0, <2>1 DEF Decides, Working, Worker
  <2>3. ASSUME ~Decides(w, d) PROVE DraftOK(d)'
    <3>1. sent'[d] = sent[d]
      BY <1>0, <1>6, <2>3 DEF Send, SendFails, Posted, Decides, tenantHistory
    <3>2. \A v \in Workers : Decides(v, d) => worker'[v] = worker[v]
      BY <1>0, <2>1, <2>3 DEF Working
    <3> QED BY <1>d, <2>0, <2>2, <3>1, <3>2 DEF DraftOK
  <2>4. ASSUME Decides(w, d) PROVE DraftOK(d)'
    <3>1. sent[d] = 0 /\ reply[d].status \in {"open", "pending"} /\ \A v \in Workers : Decides(v, d) => v = w
      BY <1>d, <2>0, <2>4 DEF DraftOK
    <3>2. CASE Send(w)
      <4>1. sent'[d] = 1 /\ worker'[w].verdict \in {"sent", "failed"}
        BY <1>0, <2>4, <3>1, <3>2 DEF Send, Posted, Decides, Working, Worker
      <4> QED BY <2>0, <2>2, <2>4, <3>1, <4>1 DEF DraftOK
    <3>3. CASE SendFails(w)
      <4>1. sent'[d] = 0 /\ worker'[w].verdict # "sent"
        BY <1>0, <2>0, <3>1, <3>3 DEF SendFails, Working, Worker, tenantHistory
      <4> QED BY <2>0, <2>2, <2>4, <3>1, <4>1 DEF DraftOK
    <3> QED BY <1>6, <3>2, <3>3
  <2> QED BY <2>3, <2>4
<1>7. ASSUME NEW w \in Workers, FinishWork(w) PROVE DraftOK(d)'
  <2>0. sent' = sent /\ Working(w, FreeWorker) /\ worker[w].verdict \in {"none", "pending", "sent", "failed", "rejected"}
    BY <1>0, <1>7 DEF FinishWork, Worker
  <2>1. ASSUME ~Decides(w, d) PROVE DraftOK(d)'
    <3>1. reply'[d] = reply[d]
      BY <1>0, <1>7, <2>1 DEF FinishWork, Decides, WorkerOK
    <3> QED BY <1>a, <1>b, <2>0, <2>1, <3>1
  <2>2. ASSUME Decides(w, d) PROVE DraftOK(d)'
    <3>1. \A v \in Workers : ~Decides(v, d)'
      BY <1>0, <1>a, <1>d, <2>0, <2>2 DEF DraftOK, Decides, Working
    <3>2. reply'[d].status = IF worker[w].verdict = "none" THEN reply[d].status ELSE worker[w].verdict
      BY <1>0, <1>7, <2>2 DEF FinishWork, Decides, Reply
    <3>3. /\ sent[d] <= 1 /\ reply[d].status \in {"open", "pending"}
          /\ worker[w].verdict = "sent" => sent[d] = 1
          /\ worker[w].verdict \in {"none", "pending", "rejected"} => sent[d] = 0
      BY <1>d, <2>2 DEF DraftOK
    <3> QED BY <2>0, <3>1, <3>2, <3>3 DEF DraftOK
  <2> QED BY <2>1, <2>2
<1>8. ASSUME (\E m \in {"off", "review", "auto"} : SetReplyMode(m)) \/ SetToken \/ UNCHANGED tenantVars PROVE DraftOK(d)'
  <2>1. UNCHANGED <<reply, sent, worker>>
    BY <1>8 DEF SetReplyMode, SetToken, tenantHistory, tenantVars
  <2> QED BY <1>d, <2>1 DEF DraftOK, Decides
<1>9. CASE TenantRestart
  <2>1. \A w \in Workers : Decides(w, d) => worker[w].verdict \notin {"sent", "failed"}
    BY <1>z, <1>9 DEF TenantRestart, Decides
  <2>2. \A w \in Workers : worker[w].verdict \in {"none", "pending", "sent", "failed", "rejected"}
    BY <1>0 DEF Worker
  <2>3. \A w \in Workers : Decides(w, d) => sent[d] = 0
    BY <1>d, <2>1, <2>2 DEF DraftOK
  <2>4. \A w \in Workers : ~Decides(w, d)'
    BY <1>9, <1>a DEF TenantRestart, Decides
  <2>5. /\ reply[d].status = "open" => reply'[d].status = "undone"
        /\ reply[d].status # "open" => reply'[d].status = reply[d].status
        /\ sent' = sent
    BY <1>0, <1>9 DEF TenantRestart, Reply
  <2> QED BY <1>d, <2>3, <2>4, <2>5 DEF DraftOK
<1> QED BY <1>1, <1>3, <1>4, <1>5, <1>6, <1>7, <1>8, <1>9 DEF TenantNext

\* A draft of which this is true goes out once.
LEMMA DraftsOnce == DraftsInv => RepliedOnce
BY DEF DraftsInv, DraftOK, RepliedOnce

\* The variables keep their types (tenant_reply.py, portal_routes.py).
THEOREM TenantTypeCorrect == TenantSpec => []TenantTypeOK
<1>1. TenantShape => TenantTypeOK
  BY DEF TenantShape
<1> QED BY <1>1, TenantShapeInit, TenantShapeStep, PTL DEF TenantSpec

\* A contact told that a human takes over is marked, or about to be, until released; and a reply
\* nobody else was deciding goes out once, never after its rejection (tenant_reply.py:264,
\* portal_routes.py:257).
THEOREM TenantChatCorrect == TenantSpec => []TenantChatSafe
<1>1. TenantInit => HandoffKept
  BY DEF TenantInit, HandoffKept
<1>2. HandoffKept /\ RepliedOnce => TenantChatSafe
  BY DEF TenantChatSafe
<1> QED BY <1>1, <1>2, TenantShapeInit, TenantShapeStep, HandoffStep, DraftsInit, DraftsStep, DraftsOnce, PTL DEF TenantSpec

-----------------------------------------------------------------------------
(***************************************************************************)
(* The outbox.                                                             *)
(***************************************************************************)

\* The messages a sender has before it or has judged, and the rows that are written.
Rows(x) == x.todo \cup {m \in Outbox : x.verdict[m] # "none"}
Exists(m) == outbox[m].status # "none"

\* A sender that rests or is about to list the queue holds nothing; what it has judged it has
\* taken off its list; a WhatsApp text travels alone; who had opted out is not the request's
\* own lead.
SenderOK(x) ==
  /\ x \in Sender
  /\ x.pc \in {"idle", "list"} => Rows(x) = {}
  /\ x.pc = "post" => x.todo # {}
  /\ \A m \in x.todo : x.verdict[m] = "none"
  /\ x.own \notin x.deaf

\* Its messages are rows of the table.
Carries(x, rows) ==
  \A m \in Rows(x) : /\ rows[m].status # "none"
                     /\ rows[m].channel = "whatsapp" => Rows(x) = {m}

\* What is counted has been written, and the queue is Telegram's.
RowsOK(rows) ==
  \A m \in Outbox : /\ rows[m].status = "queued" => rows[m].channel = "telegram"
                    /\ rows[m].status = "none" => m \notin today /\ m \notin recent /\ ~rows[m].acknowledged

OutboundShape ==
  /\ OutboundTypeOK
  /\ RowsOK(outbox)
  /\ \A s \in Senders : SenderOK(sender[s]) /\ Carries(sender[s], outbox) /\ sender[s].deaf \subseteq optedOut

\* FirstOf picks a message of the set.
LEMMA Least ==
  ASSUME NEW S \in SUBSET Outbox, S # {}
  PROVE  FirstOf(S) \in S
<1>1. Outbox \subseteq Nat
  BY DEF Outbox
<1> DEFINE R == {ss \in Nat \X Nat : ss[1] < ss[2]}
<1>2. IsWellFoundedOn(R, Nat)
  BY NatLessThanWellFounded DEF OpToRel
<1>3. PICK m \in S : \A n \in S : ~(<<n, m>> \in R)
  <2> HIDE DEF R
  <2> QED BY <1>1, <1>2, WFMin
<1>4. ASSUME NEW n \in S PROVE m <= n
  <2>1. m \in Nat /\ n \in Nat /\ ~(n < m)
    BY <1>1, <1>3
  <2> QED BY <2>1
<1> QED BY <1>4 DEF FirstOf

\* Whoever rests has no message.
LEMMA FreeSenderOK == SenderOK(FreeSender) /\ Rows(FreeSender) = {} /\ FreeSender.deaf = {}
BY DEF SenderOK, FreeSender, Sender, Verdicts, Rows

LEMMA OutboundShapeInit == OutboundInit => OutboundShape
<1> SUFFICES ASSUME OutboundInit PROVE OutboundShape
  OBVIOUS
<1>1. sender \in [Senders -> Sender] /\ \A s \in Senders : SenderOK(sender[s]) /\ Carries(sender[s], outbox)
                                                          /\ sender[s].deaf \subseteq optedOut
  BY FreeSenderOK DEF OutboundInit, SenderOK, Carries
<1>2. outbox \in [Outbox -> Outmail] /\ RowsOK(outbox)
  BY DEF OutboundInit, NoMail, Outmail, RowsOK
<1> QED BY <1>1, <1>2, OutboundAssumption DEF OutboundInit, OutboundShape, OutboundTypeOK

\* A step moves one sender and leaves the messages of the others where they are.
LEMMA SenderMoves ==
  ASSUME OutboundShape, NEW s \in Senders, NEW x, SenderOK(x), Carries(x, outbox'), Sends(s, x),
         x.deaf \subseteq optedOut, optedOut' = optedOut,
         \A m \in Outbox : Exists(m) => outbox'[m].status # "none" /\ outbox'[m].channel = outbox[m].channel
  PROVE  sender' \in [Senders -> Sender] /\ \A q \in Senders : SenderOK(sender'[q]) /\ Carries(sender'[q], outbox')
                                                               /\ sender'[q].deaf \subseteq optedOut'
<1>1. sender' = [sender EXCEPT ![s] = x] /\ sender \in [Senders -> Sender] /\ x \in Sender
  BY DEF OutboundShape, OutboundTypeOK, Sends, SenderOK
<1>2. ASSUME NEW q \in Senders, q # s PROVE Carries(sender'[q], outbox')
  BY <1>1, <1>2 DEF OutboundShape, Carries, Exists, Rows, Sender
<1> QED BY <1>1, <1>2 DEF OutboundShape

\* A message is written into the first free row.
LEMMA Enqueued ==
  ASSUME OutboundShape, NEW m \in Outbox, NEW status \in {"open", "queued"}, NEW channel \in {"telegram", "whatsapp", "template"},
         NEW to \in Recipients \cup {Anyone}, Enqueue(m, status, channel, to), status = "queued" => channel = "telegram",
         today' = today, recent' = recent
  PROVE  /\ outbox' \in [Outbox -> Outmail] /\ RowsOK(outbox)'
         /\ outbox'[m].status = status /\ outbox'[m].channel = channel /\ outbox'[m].to = to
         /\ outbox[m].status = "none" /\ \A n \in Outbox : n # m => outbox'[n] = outbox[n]
<1> DEFINE y == [NoMail EXCEPT !.status = status, !.channel = channel, !.to = to]
<1>1. y \in Outmail /\ y.status = status /\ y.channel = channel /\ y.to = to /\ y.acknowledged = FALSE
  BY DEF NoMail, Outmail
<1>2. outbox' = [outbox EXCEPT ![m] = y] /\ outbox[m].status = "none" /\ outbox \in [Outbox -> Outmail]
  BY DEF Enqueue, OutboundShape, OutboundTypeOK
<1> HIDE DEF y
<1> QED BY <1>1, <1>2 DEF OutboundShape, RowsOK

\* The types, and what senders hold of the table, last through every step.
LEMMA OutboundShapeStep ==
  ASSUME OutboundShape, [OutboundNext]_outboundVars PROVE OutboundShape'
<1> DEFINE Table == outbox \in [Outbox -> Outmail] /\ RowsOK(outbox)
           Days == today \subseteq Outbox /\ recent \subseteq Outbox
           Deaf == optedOut \subseteq Recipients
           History == posts \in [Outbox -> Nat] /\ tangled \subseteq Outbox /\ unheeded \subseteq Outbox
           SendersOK == sender \in [Senders -> Sender] /\ \A s \in Senders : SenderOK(sender[s]) /\ Carries(sender[s], outbox)
                                                                          /\ sender[s].deaf \subseteq optedOut
<1>0. Table /\ Days /\ Deaf /\ History /\ SendersOK /\ receipts \in 0..MaxReceipts
  BY DEF OutboundShape, OutboundTypeOK
<1>a. SUFFICES Table' /\ Days' /\ Deaf' /\ History' /\ SendersOK' /\ receipts' \in 0..MaxReceipts
  BY DEF OutboundShape, OutboundTypeOK
<1>b. ASSUME NEW s \in Senders PROVE /\ sender[s] \in Sender /\ sender[s].todo \subseteq Outbox
                                    /\ sender[s].verdict \in [Outbox -> Verdicts]
                                    /\ sender[s].own \in Recipients \cup {Anyone} /\ sender[s].deaf \subseteq Recipients
  <2>1. sender[s] \in Sender
    BY <1>0
  <2> QED BY <2>1 DEF Sender
<1>1. ASSUME NEW s \in Senders, NEW to \in Recipients, CompanySend(s, to)
      PROVE  Table' /\ Days' /\ Deaf' /\ History' /\ SendersOK' /\ receipts' \in 0..MaxReceipts
  <2>1. PICK m \in Outbox : Enqueue(m, "queued", "telegram", to)
    BY <1>1 DEF CompanySend
  <2> DEFINE x == [FreeSender EXCEPT !.pc = "list", !.own = to, !.deaf = optedOut]
  <2>2. Table' /\ \A n \in Outbox : Exists(n) => outbox'[n].status # "none" /\ outbox'[n].channel = outbox[n].channel
    BY <1>1, <2>1, Enqueued DEF CompanySend, Exists
  <2>3. SenderOK(x) /\ Rows(x) = {} /\ x.deaf = optedOut
    <3>1. x \in Sender /\ x.pc = "list" /\ x.own = to /\ x.deaf = optedOut
      BY <1>0 DEF FreeSender, Sender, Verdicts
    <3>2. x.todo = {} /\ x.verdict = [m2 \in Outbox |-> "none"]
      BY DEF FreeSender
    <3> HIDE DEF x
    <3> QED BY <1>1, <3>1, <3>2 DEF CompanySend, SenderOK, Rows
  <2>4. SendersOK'
    <3>1. Sends(s, x) /\ optedOut' = optedOut
      BY <1>1 DEF CompanySend
    <3>2. Carries(x, outbox')
      BY <2>3 DEF Carries
    <3> HIDE DEF x
    <3> QED BY <2>2, <2>3, <3>1, <3>2, SenderMoves
  <2> QED BY <1>0, <1>1, <2>2, <2>4 DEF CompanySend
<1>2. ASSUME NEW s \in Senders, NEW to \in Recipients \cup {Anyone}, SendNow(s, to)
      PROVE  Table' /\ Days' /\ Deaf' /\ History' /\ SendersOK' /\ receipts' \in 0..MaxReceipts
  <2>1. PICK m \in Outbox : /\ Enqueue(m, "open", "whatsapp", to)
                            /\ Sends(s, [FreeSender EXCEPT !.pc = "gate", !.todo = {m}, !.deaf = optedOut])
    BY <1>2 DEF SendNow
  <2> DEFINE x == [FreeSender EXCEPT !.pc = "gate", !.todo = {m}, !.deaf = optedOut]
  <2>2. /\ Table' /\ outbox'[m].status = "open"
        /\ \A n \in Outbox : Exists(n) => outbox'[n].status # "none" /\ outbox'[n].channel = outbox[n].channel
    BY <1>2, <2>1, Enqueued DEF SendNow, Exists
  <2>3. SenderOK(x) /\ Rows(x) = {m} /\ x.deaf = optedOut
    <3>1. x \in Sender /\ x.pc = "gate" /\ x.own = Anyone /\ x.deaf = optedOut
      BY <1>0 DEF FreeSender, Sender, Verdicts
    <3>2. x.todo = {m} /\ x.verdict = [n \in Outbox |-> "none"]
      BY DEF FreeSender
    <3> HIDE DEF x
    <3> QED BY <1>0, <3>1, <3>2, OutboundAssumption DEF SenderOK, Rows
  <2>4. SendersOK'
    <3>1. Sends(s, x) /\ optedOut' = optedOut
      BY <1>2, <2>1 DEF SendNow
    <3>2. Carries(x, outbox')
      BY <2>2, <2>3 DEF Carries
    <3> HIDE DEF x
    <3> QED BY <2>2, <2>3, <3>1, <3>2, SenderMoves
  <2> QED BY <1>0, <1>2, <2>2, <2>4 DEF SendNow
<1>11. ASSUME NEW s \in Senders, NEW to \in Recipients \cup {Anyone}, SendTemplate(s, to)
      PROVE  Table' /\ Days' /\ Deaf' /\ History' /\ SendersOK' /\ receipts' \in 0..MaxReceipts
  <2>1. PICK m \in Outbox : /\ Enqueue(m, "open", "template", to)
                            /\ Sends(s, [FreeSender EXCEPT !.pc = "post", !.todo = {m}])
    BY <1>11 DEF SendTemplate
  <2> DEFINE x == [FreeSender EXCEPT !.pc = "post", !.todo = {m}]
  <2>2. /\ Table' /\ outbox'[m].status = "open" /\ outbox'[m].channel = "template"
        /\ \A n \in Outbox : Exists(n) => outbox'[n].status # "none" /\ outbox'[n].channel = outbox[n].channel
    BY <1>11, <2>1, Enqueued DEF SendTemplate, Exists
  <2>3. SenderOK(x) /\ Rows(x) = {m} /\ x.deaf = {}
    <3>1. x \in Sender /\ x.pc = "post" /\ x.own = Anyone /\ x.deaf = {}
      BY <1>0 DEF FreeSender, Sender, Verdicts
    <3>2. x.todo = {m} /\ x.verdict = [n \in Outbox |-> "none"]
      BY DEF FreeSender
    <3> HIDE DEF x
    <3> QED BY <1>0, <3>1, <3>2 DEF SenderOK, Rows
  <2>4. SendersOK'
    <3>1. Sends(s, x) /\ optedOut' = optedOut
      BY <1>11, <2>1 DEF SendTemplate
    <3>2. Carries(x, outbox')
      BY <2>2, <2>3 DEF Carries
    <3> HIDE DEF x
    <3> QED BY <2>2, <2>3, <3>1, <3>2, SenderMoves
  <2> QED BY <1>0, <1>11, <2>2, <2>4 DEF SendTemplate
<1>3. ASSUME NEW s \in Senders, ListQueue(s)
      PROVE  Table' /\ Days' /\ Deaf' /\ History' /\ SendersOK' /\ receipts' \in 0..MaxReceipts
  <2> DEFINE rows == {m \in Outbox : outbox[m].status = "queued"}
             x == [sender[s] EXCEPT !.pc = "gate", !.todo = rows]
  <2>1. sender[s].verdict \in [Outbox -> Verdicts] /\ \A m \in Outbox : sender[s].verdict[m] = "none"
    BY <1>0, <1>3, <1>b DEF ListQueue, Stands, SenderOK, Rows
  <2>2. x \in Sender /\ x.pc = "gate" /\ x.todo = rows /\ x.verdict = sender[s].verdict /\ x.own = sender[s].own
        /\ x.deaf = sender[s].deaf
    <3> HIDE DEF rows
    <3>1. rows \subseteq Outbox
      BY DEF rows
    <3> QED BY <1>b, <3>1 DEF Sender
  <2>3. SenderOK(x) /\ Carries(x, outbox)
    <3> HIDE DEF x
    <3> QED BY <1>0, <2>1, <2>2 DEF SenderOK, Carries, Rows, RowsOK
  <2>4. SendersOK'
    <3>1. Sends(s, x) /\ UNCHANGED <<optedOut, outbox>>
      BY <1>3 DEF ListQueue, outboxRows
    <3> HIDE DEF x
    <3> QED BY <1>0, <2>2, <2>3, <3>1, SenderMoves DEF Exists
  <2> QED BY <1>0, <1>3, <2>4 DEF ListQueue, outboxRows, RowsOK
\* The first message of its list is posted or judged.
<1>4. ASSUME NEW s \in Senders, CheckGate(s) \/ PostOut(s) \/ PostOutFails(s)
      PROVE  Table' /\ Days' /\ Deaf' /\ History' /\ SendersOK' /\ receipts' \in 0..MaxReceipts
  <2> DEFINE m == FirstOf(sender[s].todo)
             x == [sender[s] EXCEPT !.pc = "post"]
             y(verdict) == [sender[s] EXCEPT !.pc = "gate", !.todo = @ \ {m}, !.verdict[m] = verdict]
  <2>1. m \in sender[s].todo /\ m \in Outbox
    BY <1>0, <1>4, <1>b, Least DEF CheckGate, PostOut, PostOutFails, Stands, SenderOK
  <2>2. SenderOK(x) /\ Carries(x, outbox) /\ x.deaf = sender[s].deaf
    <3>1. x \in Sender /\ x.pc = "post" /\ x.todo = sender[s].todo /\ x.verdict = sender[s].verdict
          /\ x.own = sender[s].own /\ x.deaf = sender[s].deaf
      BY <1>b DEF Sender
    <3> HIDE DEF x
    <3> QED BY <1>0, <2>1, <3>1 DEF SenderOK, Carries, Rows
  <2>3. ASSUME NEW verdict \in Verdicts, verdict # "none"
        PROVE  SenderOK(y(verdict)) /\ Carries(y(verdict), outbox) /\ y(verdict).deaf = sender[s].deaf
    <3> DEFINE z == y(verdict)
    <3> HIDE DEF m
    <3>1. z \in Sender /\ z.pc = "gate" /\ z.todo = sender[s].todo \ {m}
          /\ z.verdict = [sender[s].verdict EXCEPT ![m] = verdict]
          /\ z.own = sender[s].own /\ z.deaf = sender[s].deaf
      BY <1>b, <2>1 DEF Sender
    <3> HIDE DEF z
    <3>2. Rows(z) = Rows(sender[s])
      BY <1>b, <2>1, <2>3, <3>1 DEF Rows
    <3>3. SenderOK(z) /\ Carries(z, outbox) /\ z.deaf = sender[s].deaf
      BY <1>0, <1>b, <2>1, <3>1, <3>2 DEF SenderOK, Carries
    <3> QED BY <3>3 DEF z
  <2>4. Sends(s, x) \/ \E verdict \in Verdicts \ {"none"} : Sends(s, y(verdict))
    <3> HIDE DEF m
    <3>1. CASE CheckGate(s)
      <4>1. Gate(s, m) \in {"none", "blocked", "held"}
        BY DEF Gate
      <4>2. Sends(s, IF Gate(s, m) = "none" THEN x ELSE [sender[s] EXCEPT !.todo = @ \ {m}, !.verdict[m] = Gate(s, m)])
        BY <3>1 DEF CheckGate, m
      <4>3. [sender[s] EXCEPT !.todo = @ \ {m}, !.verdict[m] = Gate(s, m)] = y(Gate(s, m))
        <5>1. sender[s].pc = "gate"
          BY <3>1 DEF CheckGate, Stands
        <5> QED BY <1>b, <2>1, <5>1 DEF Sender
      <4> HIDE DEF x, y
      <4> QED BY <4>1, <4>2, <4>3 DEF Verdicts
    <3>2. CASE PostOut(s) \/ PostOutFails(s)
      <4>1. \E verdict \in {"sent", "failed"} : Judge(s, m, verdict)
        BY <3>2 DEF PostOut, PostOutFails, m
      <4>2. \E verdict \in {"sent", "failed"} : Sends(s, y(verdict))
        BY <4>1 DEF Judge
      <4> HIDE DEF x, y
      <4> QED BY <4>2 DEF Verdicts
    <3> QED BY <1>4, <3>1, <3>2
  <2>5. SendersOK'
    <3>1. UNCHANGED <<optedOut, outbox>>
      BY <1>4 DEF CheckGate, PostOut, PostOutFails, outboxRows
    <3>2. \A n \in Outbox : Exists(n) => outbox'[n].status # "none" /\ outbox'[n].channel = outbox[n].channel
      BY <3>1 DEF Exists
    <3> HIDE DEF x, y
    <3>3. CASE Sends(s, x)
      BY <1>0, <2>2, <3>1, <3>2, <3>3, SenderMoves
    <3>4. ASSUME NEW verdict \in Verdicts \ {"none"}, Sends(s, y(verdict)) PROVE SendersOK'
      BY <1>0, <2>3, <3>1, <3>2, <3>4, SenderMoves
    <3> QED BY <2>4, <3>3, <3>4
  <2>6. History'
    <3> HIDE DEF m, x, y
    <3> QED BY <1>0, <1>4, <2>1 DEF CheckGate, PostOut, PostOutFails, m
  <2> QED BY <1>0, <1>4, <2>5, <2>6 DEF CheckGate, PostOut, PostOutFails, outboxRows, RowsOK
<1>5. ASSUME NEW s \in Senders, CommitFlush(s)
      PROVE  Table' /\ Days' /\ Deaf' /\ History' /\ SendersOK' /\ receipts' \in 0..MaxReceipts
  <2> DEFINE verdict == sender[s].verdict
             accepted == {m \in Outbox : verdict[m] = "sent"}
             failed == {m \in Outbox : verdict[m] = "failed"}
  <2>1. /\ outbox' = [m \in Outbox |-> IF verdict[m] = "none" THEN outbox[m]
                        ELSE [outbox[m] EXCEPT !.status = verdict[m], !.acknowledged = @ \/ m \in accepted]]
        /\ today' = (today \cup accepted) \ failed /\ recent' = (recent \cup accepted) \ failed
        /\ Sends(s, FreeSender) /\ optedOut' = optedOut
    BY <1>5 DEF CommitFlush
  <2>2. \A m \in Outbox : /\ outbox'[m] \in Outmail /\ outbox'[m].channel = outbox[m].channel
                          /\ outbox'[m].status = IF verdict[m] = "none" THEN outbox[m].status ELSE verdict[m]
                          /\ outbox'[m].acknowledged => outbox[m].acknowledged \/ verdict[m] = "sent"
    <3> SUFFICES ASSUME NEW m \in Outbox
                 PROVE  /\ outbox'[m] \in Outmail /\ outbox'[m].channel = outbox[m].channel
                        /\ outbox'[m].status = IF verdict[m] = "none" THEN outbox[m].status ELSE verdict[m]
                        /\ outbox'[m].acknowledged => outbox[m].acknowledged \/ verdict[m] = "sent"
      OBVIOUS
    <3>1. outbox[m] \in Outmail /\ verdict[m] \in Verdicts
      BY <1>0, <1>b
    <3>2. verdict[m] = "none" => outbox'[m] = outbox[m]
      BY <2>1
    <3>3. verdict[m] # "none" => outbox'[m] = [outbox[m] EXCEPT !.status = verdict[m], !.acknowledged = @ \/ m \in accepted]
      BY <2>1
    <3> HIDE DEF verdict
    <3> QED BY <3>1, <3>2, <3>3 DEF Outmail, Verdicts
  <2>3. \A m \in Outbox : verdict[m] \in Verdicts /\ (verdict[m] # "none" => outbox[m].status # "none")
    BY <1>0, <1>b DEF Carries, Rows
  <2>4. Table' /\ Days'
    <3> HIDE DEF verdict
    <3>1. outbox' \in [Outbox -> Outmail]
      BY <2>1, <2>2
    <3>2. \A m \in Outbox : verdict[m] # "none" => verdict[m] \in {"sent", "failed", "blocked", "held"}
      BY <2>3 DEF Verdicts
    <3>3. ASSUME NEW m \in Outbox
          PROVE  /\ outbox'[m].status = "queued" => outbox'[m].channel = "telegram"
                 /\ outbox'[m].status = "none" => m \notin today' /\ m \notin recent' /\ ~outbox'[m].acknowledged
      <4>1. outbox'[m].status = "queued" => outbox[m].status = "queued" /\ outbox'[m].channel = outbox[m].channel
        BY <2>2, <2>3, <3>2
      <4>2. ASSUME outbox'[m].status = "none" PROVE verdict[m] = "none" /\ outbox[m].status = "none"
        BY <2>2, <2>3, <3>2, <4>2
      <4>3. outbox'[m].status = "none" => ~outbox'[m].acknowledged
        BY <1>0, <2>2, <4>2 DEF RowsOK
      <4>4. outbox'[m].status = "none" => m \notin today' /\ m \notin recent'
        BY <1>0, <2>1, <4>2 DEF RowsOK
      <4> QED BY <1>0, <4>1, <4>3, <4>4 DEF RowsOK
    <3> QED BY <1>0, <2>1, <3>1, <3>3 DEF RowsOK
  <2>5. SendersOK'
    <3>1. \A m \in Outbox : Exists(m) => outbox'[m].status # "none" /\ outbox'[m].channel = outbox[m].channel
      BY <2>2, <2>3 DEF Exists
    <3>2. Carries(FreeSender, outbox')
      BY FreeSenderOK DEF Carries
    <3> QED BY <2>1, <3>1, <3>2, FreeSenderOK, SenderMoves
  <2> QED BY <1>0, <1>5, <2>4, <2>5 DEF CommitFlush
<1>6. ASSUME NEW m \in Outbox, NEW receipt \in {"delivered", "failed"}, AcknowledgeStatus(m, receipt)
      PROVE  Table' /\ Days' /\ Deaf' /\ History' /\ SendersOK' /\ receipts' \in 0..MaxReceipts
  <2>1. receipts' \in 0..MaxReceipts
    BY <1>0, <1>6, OutboundAssumption DEF AcknowledgeStatus
  <2>2. /\ outbox' \in [Outbox -> Outmail]
        /\ \A n \in Outbox : outbox'[n].channel = outbox[n].channel /\ outbox'[n].acknowledged = outbox[n].acknowledged
        /\ \A n \in Outbox : \/ outbox'[n].status = outbox[n].status
                             \/ n = m /\ outbox[n].status # "none" /\ outbox'[n].status = "failed"
    <3>0. outbox[m] \in Outmail /\ outbox[m].acknowledged
      BY <1>0, <1>6 DEF AcknowledgeStatus
    <3>1. outbox' = [outbox EXCEPT ![m] = [outbox[m] EXCEPT !.receipt = receipt,
                                                 !.status = IF receipt = "failed" THEN "failed" ELSE @]]
      BY <1>0, <1>6 DEF AcknowledgeStatus
    <3>2. outbox[m].status # "none"
      BY <1>0, <3>0 DEF RowsOK
    <3> QED BY <1>0, <3>0, <3>1, <3>2 DEF Outmail
  <2>3. UNCHANGED <<today, recent, optedOut, sender>>
    BY <1>6 DEF AcknowledgeStatus
  <2>4. RowsOK(outbox)'
    BY <1>0, <2>2, <2>3 DEF RowsOK
  <2>5. SendersOK'
    BY <1>0, <1>b, <2>2, <2>3 DEF Carries, Rows
  <2> QED BY <1>0, <1>6, <2>1, <2>2, <2>4, <2>5 DEF AcknowledgeStatus
<1>7. ASSUME NEW l \in Recipients, OptOut(l) \/ CooldownOver(l)
      PROVE  Table' /\ Days' /\ Deaf' /\ History' /\ SendersOK' /\ receipts' \in 0..MaxReceipts
  <2>1. /\ UNCHANGED <<outbox, today, sender, receipts, posts, tangled, unheeded>>
        /\ optedOut \subseteq optedOut' /\ optedOut' \subseteq Recipients /\ recent' \subseteq recent
    BY <1>0, <1>7 DEF OptOut, CooldownOver
  <2>2. RowsOK(outbox)'
    BY <1>0, <2>1 DEF RowsOK
  <2>3. SendersOK'
    BY <1>0, <2>1
  <2> QED BY <1>0, <2>1, <2>2, <2>3
<1>8. CASE Midnight
  BY <1>0, <1>8 DEF Midnight, RowsOK
<1>9. CASE OutboundRestart
  <2>1. outbox' \in [Outbox -> Outmail] /\ RowsOK(outbox)'
    <3>1. \A m \in Outbox : outbox'[m] = IF outbox[m].status = "open" THEN [outbox[m] EXCEPT !.status = "undone"] ELSE outbox[m]
      BY <1>9 DEF OutboundRestart
    <3>2. \A m \in Outbox : /\ outbox'[m] \in Outmail /\ outbox'[m].channel = outbox[m].channel
                            /\ outbox'[m].acknowledged = outbox[m].acknowledged
                            /\ outbox[m].status = "open" => outbox'[m].status = "undone"
                            /\ outbox[m].status # "open" => outbox'[m].status = outbox[m].status
      BY <1>0, <3>1 DEF Outmail
    <3> QED BY <1>0, <1>9, <3>2 DEF OutboundRestart, RowsOK
  <2>2. SendersOK'
    BY <1>9, FreeSenderOK DEF OutboundRestart, SenderOK, Carries
  <2> QED BY <1>0, <1>9, <2>1, <2>2 DEF OutboundRestart, Written
<1>10. CASE UNCHANGED outboundVars
  BY <1>0, <1>10 DEF outboundVars, RowsOK, Carries
<1> QED BY <1>1, <1>2, <1>3, <1>4, <1>5, <1>6, <1>7, <1>8, <1>9, <1>10, <1>11 DEF OutboundNext

-----------------------------------------------------------------------------
\* What a step of a request makes of the first message on its list.
LEMMA Turn ==
  ASSUME OutboundShape, NEW s \in Senders, CheckGate(s) \/ PostOut(s) \/ PostOutFails(s),
         NEW m, m = FirstOf(sender[s].todo)
  PROVE  /\ m \in sender[s].todo /\ m \in Outbox /\ sender[s].verdict[m] = "none" /\ UNCHANGED <<outboxRows, receipts, tangled>>
         /\ \A q \in Senders : q # s => sender'[q] = sender[q]
         /\ sender'[s].deaf = sender[s].deaf /\ sender'[s].own = sender[s].own
         /\ \/ /\ CheckGate(s) /\ Gate(s, m) = "none" /\ UNCHANGED <<posts, unheeded>> /\ sender[s].pc = "gate"
               /\ sender'[s].pc = "post" /\ sender'[s].todo = sender[s].todo /\ sender'[s].verdict = sender[s].verdict
            \/ /\ sender'[s].pc = "gate" /\ sender'[s].todo = sender[s].todo \ {m}
               /\ \E verdict \in {"sent", "failed", "blocked", "held"} :
                    /\ sender'[s].verdict = [sender[s].verdict EXCEPT ![m] = verdict]
                    /\ verdict = "sent" => posts' = [posts EXCEPT ![m] = @ + 1]
                    /\ verdict \in {"sent", "failed"} => sender[s].pc = "post"
                    /\ verdict \in {"blocked", "held"} => UNCHANGED posts
               /\ \/ UNCHANGED <<posts, unheeded>>
                  \/ PostOut(s) /\ sender[s].pc = "post" /\ posts' = [posts EXCEPT ![m] = @ + 1]
                     /\ unheeded' = unheeded \cup {n \in {m} : outbox[n].to \in sender[s].deaf}
<1>0. /\ sender \in [Senders -> Sender] /\ sender[s] \in Sender /\ SenderOK(sender[s])
      /\ sender[s].todo \subseteq Outbox /\ sender[s].verdict \in [Outbox -> Verdicts]
  <2>1. sender \in [Senders -> Sender] /\ sender[s] \in Sender /\ SenderOK(sender[s])
    BY DEF OutboundShape, OutboundTypeOK
  <2> QED BY <2>1 DEF Sender
<1>1. m \in sender[s].todo /\ m \in Outbox /\ sender[s].verdict[m] = "none"
  <2>1. sender[s].todo # {}
    BY <1>0 DEF CheckGate, PostOut, PostOutFails, Stands, SenderOK
  <2> QED BY <1>0, <2>1, Least DEF SenderOK
<1>2. UNCHANGED <<outboxRows, receipts, tangled>>
  BY DEF CheckGate, PostOut, PostOutFails
<1> DEFINE x == [sender[s] EXCEPT !.pc = "post"]
           y(verdict) == [sender[s] EXCEPT !.pc = "gate", !.todo = @ \ {m}, !.verdict[m] = verdict]
<1>3. x.pc = "post" /\ x.todo = sender[s].todo /\ x.verdict = sender[s].verdict /\ x.own = sender[s].own /\ x.deaf = sender[s].deaf
  BY <1>0 DEF Sender
<1>4. ASSUME NEW verdict
      PROVE  /\ y(verdict).pc = "gate" /\ y(verdict).todo = sender[s].todo \ {m} /\ y(verdict).own = sender[s].own
             /\ y(verdict).deaf = sender[s].deaf /\ y(verdict).verdict = [sender[s].verdict EXCEPT ![m] = verdict]
  BY <1>0, <1>1 DEF Sender
<1>5. CASE CheckGate(s)
  <2>1. UNCHANGED <<posts, unheeded>> /\ sender[s].pc = "gate"
    BY <1>5 DEF CheckGate, Stands
  <2>2. Gate(s, m) \in {"none", "blocked", "held"}
    BY DEF Gate
  <2>3. Sends(s, IF Gate(s, m) = "none" THEN x ELSE [sender[s] EXCEPT !.todo = @ \ {m}, !.verdict[m] = Gate(s, m)])
    BY <1>5 DEF CheckGate
  <2>4. [sender[s] EXCEPT !.todo = @ \ {m}, !.verdict[m] = Gate(s, m)] = y(Gate(s, m))
    BY <1>0, <2>1 DEF Sender
  <2>a. Gate(s, m) = "none" => Sends(s, x)
    BY <2>3
  <2>b. Gate(s, m) # "none" => Sends(s, y(Gate(s, m)))
    <3>1. Gate(s, m) # "none" => Sends(s, [sender[s] EXCEPT !.todo = @ \ {m}, !.verdict[m] = Gate(s, m)])
      BY <2>3
    <3> HIDE DEF y
    <3> QED BY <2>4, <3>1
  <2> HIDE DEF x, y
  <2>5. \/ sender' = [sender EXCEPT ![s] = x] /\ Gate(s, m) = "none"
        \/ sender' = [sender EXCEPT ![s] = y(Gate(s, m))] /\ Gate(s, m) # "none"
    BY <2>a, <2>b DEF Sends
  <2> QED BY <1>0, <1>1, <1>2, <1>3, <1>4, <1>5, <2>1, <2>2, <2>5
<1>6. CASE PostOut(s) \/ PostOutFails(s)
  <2>1. /\ sender[s].pc = "post"
        /\ \/ UNCHANGED <<posts, unheeded>> /\ Judge(s, m, "failed")
           \/ /\ PostOut(s) /\ posts' = [posts EXCEPT ![m] = @ + 1]
              /\ unheeded' = unheeded \cup {n \in {m} : outbox[n].to \in sender[s].deaf}
              /\ \E verdict \in {"sent", "failed"} : Judge(s, m, verdict)
    BY <1>6 DEF PostOut, PostOutFails, Stands
  <2>2. \A verdict : Judge(s, m, verdict) => sender' = [sender EXCEPT ![s] = y(verdict)]
    BY DEF Judge, Sends
  <2> HIDE DEF y
  <2>3. ASSUME NEW verdict, Judge(s, m, verdict)
        PROVE  /\ \A q \in Senders : q # s => sender'[q] = sender[q]
               /\ sender'[s].pc = "gate" /\ sender'[s].todo = sender[s].todo \ {m} /\ sender'[s].own = sender[s].own
               /\ sender'[s].deaf = sender[s].deaf /\ sender'[s].verdict = [sender[s].verdict EXCEPT ![m] = verdict]
    BY <1>0, <1>4, <2>2, <2>3
  <2> QED BY <1>1, <1>2, <2>1, <2>3
<1> QED BY <1>5, <1>6

\* A row stays what it is, and of whom, once it is written.
LEMMA OutboxStays ==
  ASSUME OutboundShape, [OutboundNext]_outboundVars, NEW m \in Outbox, Exists(m)
  PROVE  /\ outbox'[m].channel = outbox[m].channel /\ outbox'[m].to = outbox[m].to /\ outbox'[m].status # "none"
         /\ outbox'[m].status = "sent" => outbox[m].status = "sent" \/ \E s \in Senders : CommitFlush(s) /\ sender[s].verdict[m] = "sent"
<1>0. outbox[m] \in Outmail /\ outbox \in [Outbox -> Outmail]
  BY DEF OutboundShape, OutboundTypeOK
<1>1. ASSUME NEW n \in Outbox, NEW status, NEW channel, NEW to, Enqueue(n, status, channel, to) PROVE outbox'[m] = outbox[m]
  BY <1>0, <1>1 DEF Enqueue, Exists
<1>2. ASSUME NEW s \in Senders, CommitFlush(s)
      PROVE  /\ outbox'[m].channel = outbox[m].channel /\ outbox'[m].to = outbox[m].to
             /\ outbox'[m].status = IF sender[s].verdict[m] = "none" THEN outbox[m].status ELSE sender[s].verdict[m]
  BY <1>0, <1>2 DEF CommitFlush, Outmail
<1>3. ASSUME NEW n \in Outbox, NEW receipt \in {"delivered", "failed"}, AcknowledgeStatus(n, receipt)
      PROVE  /\ outbox'[m].channel = outbox[m].channel /\ outbox'[m].to = outbox[m].to
             /\ outbox'[m].status = outbox[m].status \/ outbox'[m].status = "failed"
  <2>1. outbox' = [outbox EXCEPT ![n] = [outbox[n] EXCEPT !.receipt = receipt,
                                           !.status = IF receipt = "failed" THEN "failed" ELSE @]]
    BY <1>0, <1>3 DEF AcknowledgeStatus
  <2> QED BY <1>0, <2>1 DEF Outmail
<1>4. ASSUME OutboundRestart
      PROVE  /\ outbox'[m].channel = outbox[m].channel /\ outbox'[m].to = outbox[m].to
             /\ outbox'[m].status = IF outbox[m].status = "open" THEN "undone" ELSE outbox[m].status
  BY <1>0, <1>4 DEF OutboundRestart, Outmail
<1>5. \/ outbox' = outbox
      \/ \E n \in Outbox : \E status, channel, to : Enqueue(n, status, channel, to)
      \/ \E s \in Senders : CommitFlush(s)
      \/ \E n \in Outbox, receipt \in {"delivered", "failed"} : AcknowledgeStatus(n, receipt)
      \/ OutboundRestart
  BY DEF OutboundNext, outboundVars, outboxRows, CompanySend, SendNow, SendTemplate, ListQueue, CheckGate, PostOut, PostOutFails,
     OptOut, CooldownOver, Midnight
<1> QED BY <1>0, <1>1, <1>2, <1>3, <1>4, <1>5 DEF Exists

-----------------------------------------------------------------------------
(* Nobody gets a text from a request that began after the opt-out. *)

HeedInv ==
  /\ unheeded = {}
  /\ \A s \in Senders : sender[s].pc = "post" => outbox[FirstOf(sender[s].todo)].to \notin sender[s].deaf

\* The gate (_outreach_block_reason) asks for the opt-out before every post.
LEMMA HeedStep ==
  ASSUME OutboundShape, HeedInv, [OutboundNext]_outboundVars PROVE HeedInv'
<1>0. /\ sender \in [Senders -> Sender]
      /\ \A s \in Senders : SenderOK(sender[s]) /\ Carries(sender[s], outbox) /\ sender[s].deaf \subseteq optedOut
  BY DEF OutboundShape, OutboundTypeOK
<1>1. ASSUME NEW s \in Senders, sender[s].pc = "post" PROVE FirstOf(sender[s].todo) \in Outbox /\ Exists(FirstOf(sender[s].todo))
  <2>1. sender[s].todo # {} /\ sender[s].todo \in SUBSET Outbox
    BY <1>0, <1>1 DEF SenderOK, Sender
  <2>2. FirstOf(sender[s].todo) \in sender[s].todo
    BY <2>1, Least
  <2> QED BY <1>0, <2>1, <2>2 DEF Carries, Rows, Exists
\* A sender that does not move, or moves to anything but a post, keeps it.
<1>2. ASSUME unheeded' = unheeded, \A s \in Senders : sender'[s] = sender[s] \/ sender'[s].pc # "post" PROVE HeedInv'
  <2> SUFFICES ASSUME NEW s \in Senders, sender'[s].pc = "post" PROVE outbox'[FirstOf(sender[s].todo)].to \notin sender[s].deaf
    BY <1>2 DEF HeedInv
  <2>1. sender[s].pc = "post"
    BY <1>2
  <2>2. FirstOf(sender[s].todo) \in Outbox /\ Exists(FirstOf(sender[s].todo))
    BY <1>1, <2>1
  <2> QED BY <2>1, <2>2, OutboxStays DEF HeedInv
<1>3. ASSUME NEW s \in Senders, NEW x, Sends(s, x), x.pc # "post", unheeded' = unheeded PROVE HeedInv'
  BY <1>0, <1>2, <1>3 DEF Sends
<1>4. ASSUME NEW s \in Senders, NEW to \in Recipients, CompanySend(s, to) PROVE HeedInv'
  <2>1. [FreeSender EXCEPT !.pc = "list", !.own = to, !.deaf = optedOut].pc # "post"
    BY DEF FreeSender
  <2> QED BY <1>3, <1>4, <2>1 DEF CompanySend
<1>5. ASSUME NEW s \in Senders, NEW to \in Recipients \cup {Anyone}, SendNow(s, to) PROVE HeedInv'
  <2>1. \A m : [FreeSender EXCEPT !.pc = "gate", !.todo = {m}, !.deaf = optedOut].pc # "post"
    BY DEF FreeSender
  <2> QED BY <1>3, <1>5, <2>1 DEF SendNow
\* A template heeds nobody: no text goes out, and nobody counts as unheard.
<1>11. ASSUME NEW s \in Senders, NEW to \in Recipients \cup {Anyone}, SendTemplate(s, to) PROVE HeedInv'
  <2>1. PICK m \in Outbox : Sends(s, [FreeSender EXCEPT !.pc = "post", !.todo = {m}])
    BY <1>11 DEF SendTemplate
  <2>2. sender'[s].deaf = {} /\ unheeded' = unheeded /\ \A q \in Senders : q # s => sender'[q] = sender[q]
    BY <1>0, <1>11, <2>1 DEF Sends, FreeSender, SendTemplate
  <2>3. ASSUME NEW q \in Senders, q # s, sender'[q].pc = "post" PROVE outbox'[FirstOf(sender[q].todo)].to \notin sender[q].deaf
    <3>1. sender[q].pc = "post"
      BY <2>2, <2>3
    <3>2. FirstOf(sender[q].todo) \in Outbox /\ Exists(FirstOf(sender[q].todo))
      BY <1>1, <3>1
    <3> QED BY <3>1, <3>2, OutboxStays DEF HeedInv
  <2> QED BY <2>2, <2>3 DEF HeedInv
<1>6. ASSUME NEW s \in Senders, ListQueue(s) PROVE HeedInv'
  <2> DEFINE rows == {m \in Outbox : outbox[m].status = "queued"}
  <2>1. [sender[s] EXCEPT !.pc = "gate", !.todo = rows].pc # "post"
    BY <1>0 DEF Sender
  <2> QED BY <1>3, <1>6, <2>1 DEF ListQueue
<1>7. ASSUME NEW s \in Senders, CheckGate(s) \/ PostOut(s) \/ PostOutFails(s) PROVE HeedInv'
  <2> DEFINE m == FirstOf(sender[s].todo)
  <2>1. /\ m \in Outbox /\ outbox' = outbox
        /\ \A q \in Senders : q # s => sender'[q] = sender[q]
        /\ sender'[s].deaf = sender[s].deaf
        /\ \/ /\ CheckGate(s) /\ Gate(s, m) = "none" /\ unheeded' = unheeded
              /\ sender'[s].pc = "post" /\ sender'[s].todo = sender[s].todo
           \/ /\ sender'[s].pc = "gate"
              /\ \/ unheeded' = unheeded
                 \/ sender[s].pc = "post" /\ unheeded' = unheeded \cup {n \in {m} : outbox[n].to \in sender[s].deaf}
    <3> HIDE DEF m
    <3>1. m = FirstOf(sender[s].todo)
      BY DEF m
    <3>2. m \in Outbox /\ UNCHANGED <<outboxRows>> /\ \A q \in Senders : q # s => sender'[q] = sender[q]
      BY <1>7, <3>1, Turn
    <3> QED BY <1>7, <3>1, <3>2, Turn DEF outboxRows
  <2>2. CASE Gate(s, m) = "none" /\ unheeded' = unheeded /\ sender'[s].pc = "post" /\ sender'[s].todo = sender[s].todo
    <3>1. outbox[m].to \notin sender[s].deaf
      BY <1>0, <2>2 DEF Gate, OptedOut, SenderOK
    <3> QED BY <2>1, <2>2, <3>1 DEF HeedInv
  <2>3. CASE sender'[s].pc = "gate" /\ unheeded' = unheeded
    BY <1>2, <2>1, <2>3
  <2>4. CASE /\ sender'[s].pc = "gate" /\ sender[s].pc = "post"
             /\ unheeded' = unheeded \cup {n \in {m} : outbox[n].to \in sender[s].deaf}
    <3>1. unheeded' = unheeded
      BY <2>4 DEF HeedInv
    <3> QED BY <1>2, <2>1, <2>4, <3>1
  <2> QED BY <2>1, <2>2, <2>3, <2>4
<1>8. ASSUME NEW s \in Senders, CommitFlush(s) PROVE HeedInv'
  BY <1>3, <1>8 DEF CommitFlush, FreeSender
<1>9. ASSUME \/ \E m \in Outbox, receipt \in {"delivered", "failed"} : AcknowledgeStatus(m, receipt)
             \/ \E l \in Recipients : OptOut(l) \/ CooldownOver(l)
             \/ Midnight \/ UNCHANGED outboundVars
      PROVE HeedInv'
  BY <1>2, <1>9 DEF AcknowledgeStatus, OptOut, CooldownOver, Midnight, outboundVars
<1>10. CASE OutboundRestart
  BY <1>2, <1>10 DEF OutboundRestart, FreeSender
<1> QED BY <1>4, <1>5, <1>6, <1>7, <1>8, <1>9, <1>10, <1>11 DEF OutboundNext

-----------------------------------------------------------------------------
(* A message that one flush at a time holds is posted once. *)

Holds(s, m) == m \in Works(s)

\* Who holds an untangled message holds it alone, and what it has judged is what was posted.
MessageOK(m) ==
  /\ \A q, s \in Senders : Holds(q, m) /\ Holds(s, m) => q = s
  /\ posts[m] <= 1
  /\ outbox[m].status \notin {"sent", "failed"} /\ posts[m] # 0 => \E s \in Senders : Holds(s, m)
  /\ outbox[m].status = "sent" => posts[m] = 1
  /\ outbox[m].acknowledged => outbox[m].status \in {"sent", "failed"}
  /\ \A s \in Senders : Holds(s, m) =>
       /\ outbox[m].status \in {"open", "queued"}
       /\ m \in sender[s].todo => posts[m] = 0
       /\ sender[s].verdict[m] = "sent" => posts[m] = 1
       /\ sender[s].verdict[m] \in {"blocked", "held"} => posts[m] = 0

PostedInv == \A m \in Outbox : m \in tangled \/ MessageOK(m)

LEMMA PostedInit == OutboundInit => PostedInv
BY DEF OutboundInit, PostedInv, MessageOK, Holds, Works, Written, NoMail, FreeSender

\* flush_queue and send_now keep it.
LEMMA PostedStep ==
  ASSUME OutboundShape, PostedInv, [OutboundNext]_outboundVars PROVE PostedInv'
<1>0. /\ sender \in [Senders -> Sender] /\ outbox \in [Outbox -> Outmail] /\ posts \in [Outbox -> Nat]
      /\ \A s \in Senders : SenderOK(sender[s]) /\ Carries(sender[s], outbox)
      /\ \A s \in Senders : sender[s].verdict \in [Outbox -> Verdicts]
  <2>1. sender \in [Senders -> Sender]
    BY DEF OutboundShape, OutboundTypeOK
  <2> QED BY <2>1 DEF OutboundShape, OutboundTypeOK, Sender
<1>z. SUFFICES ASSUME NEW m \in Outbox, m \notin tangled' PROVE MessageOK(m)'
  BY DEF PostedInv
<1>d. m \notin tangled /\ MessageOK(m)
  <2>1. tangled \subseteq tangled'
    BY DEF OutboundNext, CompanySend, SendNow, SendTemplate, ListQueue, CheckGate, PostOut, PostOutFails, CommitFlush, AcknowledgeStatus,
       OptOut, CooldownOver, Midnight, OutboundRestart, outboundVars
  <2> QED BY <1>z, <2>1 DEF PostedInv
<1>e. ASSUME NEW s \in Senders
      PROVE  /\ Holds(s, m) <=> m \in sender[s].todo \/ sender[s].verdict[m] # "none"
             /\ Holds(s, m) => outbox[m].status # "none"
             /\ m \in sender[s].todo => sender[s].verdict[m] = "none"
             /\ sender[s].pc \in {"idle", "list"} => ~Holds(s, m)
  BY <1>0 DEF Holds, Works, Written, Carries, Rows, SenderOK
\* Senders that do not hold the message, before and after, do not touch it.
<1>b. ASSUME outbox'[m] = outbox[m], posts'[m] = posts[m],
             \A q \in Senders : sender'[q] = sender[q] \/ (~Holds(q, m) /\ ~Holds(q, m)')
      PROVE  MessageOK(m)'
  <2>1. \A q \in Senders : (Holds(q, m)' <=> Holds(q, m)) /\ (Holds(q, m) => sender'[q] = sender[q])
    BY <1>b DEF Holds, Works, Written
  <2> QED BY <1>b, <1>d, <2>1 DEF MessageOK
<1>f. ASSUME NEW s \in Senders, sender'[s] = FreeSender PROVE ~Holds(s, m)'
  BY <1>f DEF Holds, Works, Written, FreeSender
<1>1. ASSUME NEW s \in Senders, NEW to \in Recipients, CompanySend(s, to) PROVE MessageOK(m)'
  <2>1. PICK n \in Outbox : Enqueue(n, "queued", "telegram", to)
    BY <1>1 DEF CompanySend
  <2> DEFINE x == [FreeSender EXCEPT !.pc = "list", !.own = to, !.deaf = optedOut]
  <2>2. x.todo = {} /\ x.verdict = [k \in Outbox |-> "none"]
    BY DEF FreeSender
  <2>3. sender' = [sender EXCEPT ![s] = x] /\ posts' = posts /\ sender[s].pc = "idle"
    BY <1>1 DEF CompanySend, Sends, Stands
  <2> HIDE DEF x
  <2>4. \A q \in Senders : sender'[q] = sender[q] \/ (~Holds(q, m) /\ ~Holds(q, m)')
    BY <1>0, <1>e, <2>2, <2>3 DEF Holds, Works, Written
  <2>5. CASE n # m
    <3>1. outbox'[m] = outbox[m]
      BY <1>0, <2>1, <2>5 DEF Enqueue
    <3> QED BY <1>b, <2>3, <2>4, <3>1 DEF Holds, Works, Written
  <2>6. CASE n = m
    <3>1. outbox[m].status = "none" /\ outbox'[m].status = "queued" /\ outbox'[m].acknowledged = FALSE
      BY <1>0, <2>1, <2>6 DEF Enqueue, NoMail
    <3>2. \A q \in Senders : ~Holds(q, m) /\ ~Holds(q, m)'
      BY <1>e, <2>4, <3>1 DEF Holds, Works, Written
    <3> QED BY <1>0, <1>d, <2>3, <3>1, <3>2 DEF MessageOK
  <2> QED BY <2>5, <2>6
<1>2. ASSUME NEW s \in Senders, NEW to \in Recipients \cup {Anyone}, SendNow(s, to) PROVE MessageOK(m)'
  <2>1. PICK n \in Outbox : /\ Enqueue(n, "open", "whatsapp", to)
                            /\ Sends(s, [FreeSender EXCEPT !.pc = "gate", !.todo = {n}, !.deaf = optedOut])
    BY <1>2 DEF SendNow
  <2> DEFINE x == [FreeSender EXCEPT !.pc = "gate", !.todo = {n}, !.deaf = optedOut]
  <2>2. x.todo = {n} /\ x.verdict = [k \in Outbox |-> "none"]
    BY DEF FreeSender
  <2>3. sender' = [sender EXCEPT ![s] = x] /\ posts' = posts /\ sender[s].pc = "idle"
    BY <1>2, <2>1 DEF SendNow, Sends, Stands
  <2> HIDE DEF x
  <2>4. ~Holds(s, m) /\ (Holds(s, m)' <=> n = m) /\ \A q \in Senders : q # s => sender'[q] = sender[q]
    BY <1>0, <1>e, <2>2, <2>3 DEF Holds, Works, Written
  <2>5. CASE n # m
    <3>1. outbox'[m] = outbox[m]
      BY <1>0, <2>1, <2>5 DEF Enqueue
    <3> QED BY <1>b, <2>3, <2>4, <2>5, <3>1 DEF Holds, Works, Written
  <2>6. CASE n = m
    <3>1. outbox[m].status = "none" /\ outbox'[m].status = "open" /\ outbox'[m].acknowledged = FALSE
      BY <1>0, <2>1, <2>6 DEF Enqueue, NoMail
    <3>2. \A q \in Senders : Holds(q, m)' => q = s
      BY <1>e, <2>4, <3>1 DEF Holds, Works, Written
    <3>3. posts'[m] = 0 /\ sender'[s].verdict[m] = "none"
      <4>1. \A q \in Senders : ~Holds(q, m)
        BY <1>e, <3>1
      <4> QED BY <1>0, <1>d, <2>2, <2>3, <3>1, <4>1 DEF MessageOK
    <3> QED BY <2>4, <2>6, <3>1, <3>2, <3>3 DEF MessageOK
  <2> QED BY <2>5, <2>6
<1>9. ASSUME NEW s \in Senders, NEW to \in Recipients \cup {Anyone}, SendTemplate(s, to) PROVE MessageOK(m)'
  <2>1. PICK n \in Outbox : /\ Enqueue(n, "open", "template", to)
                            /\ Sends(s, [FreeSender EXCEPT !.pc = "post", !.todo = {n}])
    BY <1>9 DEF SendTemplate
  <2> DEFINE x == [FreeSender EXCEPT !.pc = "post", !.todo = {n}]
  <2>2. x.todo = {n} /\ x.verdict = [k \in Outbox |-> "none"]
    BY DEF FreeSender
  <2>3. sender' = [sender EXCEPT ![s] = x] /\ posts' = posts /\ sender[s].pc = "idle"
    BY <1>9, <2>1 DEF SendTemplate, Sends, Stands
  <2> HIDE DEF x
  <2>4. ~Holds(s, m) /\ (Holds(s, m)' <=> n = m) /\ \A q \in Senders : q # s => sender'[q] = sender[q]
    BY <1>0, <1>e, <2>2, <2>3 DEF Holds, Works, Written
  <2>5. CASE n # m
    <3>1. outbox'[m] = outbox[m]
      BY <1>0, <2>1, <2>5 DEF Enqueue
    <3> QED BY <1>b, <2>3, <2>4, <2>5, <3>1 DEF Holds, Works, Written
  <2>6. CASE n = m
    <3>1. outbox[m].status = "none" /\ outbox'[m].status = "open" /\ outbox'[m].acknowledged = FALSE
      BY <1>0, <2>1, <2>6 DEF Enqueue, NoMail
    <3>2. \A q \in Senders : Holds(q, m)' => q = s
      BY <1>e, <2>4, <3>1 DEF Holds, Works, Written
    <3>3. posts'[m] = 0 /\ sender'[s].verdict[m] = "none"
      <4>1. \A q \in Senders : ~Holds(q, m)
        BY <1>e, <3>1
      <4> QED BY <1>0, <1>d, <2>2, <2>3, <3>1, <4>1 DEF MessageOK
    <3> QED BY <2>4, <2>6, <3>1, <3>2, <3>3 DEF MessageOK
  <2> QED BY <2>5, <2>6
<1>3. ASSUME NEW s \in Senders, ListQueue(s) PROVE MessageOK(m)'
  <2> DEFINE rows == {n \in Outbox : outbox[n].status = "queued"}
             x == [sender[s] EXCEPT !.pc = "gate", !.todo = rows]
  <2>1. /\ sender' = [sender EXCEPT ![s] = x] /\ UNCHANGED <<outbox, posts>> /\ sender[s].pc = "list"
        /\ m \in rows => \A q \in Senders \ {s} : ~Holds(q, m)
    BY <1>z, <1>3 DEF ListQueue, Sends, Stands, outboxRows, Holds
  <2>2. x.todo = rows /\ x.verdict = sender[s].verdict /\ ~Holds(s, m)
    BY <1>0, <1>e, <2>1 DEF Sender
  <2>3. /\ Holds(s, m)' <=> m \in rows
        /\ \A q \in Senders : q # s => sender'[q] = sender[q]
        /\ sender'[s].verdict[m] = "none"
    <3> HIDE DEF x, rows
    <3> QED BY <1>0, <1>e, <2>1, <2>2 DEF Holds, Works, Written
  <2>4. CASE m \notin rows
    <3> HIDE DEF x, rows
    <3> QED BY <1>b, <2>1, <2>2, <2>3, <2>4 DEF Holds, Works, Written
  <2>5. CASE m \in rows
    <3>1. outbox[m].status = "queued" /\ \A q \in Senders : ~Holds(q, m)
      BY <2>1, <2>2, <2>5
    <3>2. posts[m] = 0
      BY <1>d, <3>1 DEF MessageOK
    <3>3. \A q \in Senders : Holds(q, m)' => q = s
      BY <2>3, <3>1 DEF Holds, Works, Written
    <3> QED BY <1>d, <2>1, <2>3, <2>5, <3>1, <3>2, <3>3 DEF MessageOK
  <2> QED BY <2>4, <2>5
<1>4. ASSUME NEW s \in Senders, CheckGate(s) \/ PostOut(s) \/ PostOutFails(s) PROVE MessageOK(m)'
  <2> DEFINE n == FirstOf(sender[s].todo)
  <2>0. n = FirstOf(sender[s].todo)
    OBVIOUS
  <2> HIDE DEF n
  <2>1. /\ n \in sender[s].todo /\ n \in Outbox /\ outbox' = outbox /\ sender[s].verdict[n] = "none"
        /\ \A q \in Senders : q # s => sender'[q] = sender[q]
    BY <1>4, <2>0, Turn DEF outboxRows
  <2>2. \/ sender'[s].todo = sender[s].todo /\ sender'[s].verdict = sender[s].verdict /\ posts' = posts
        \/ /\ sender'[s].todo = sender[s].todo \ {n}
           /\ \E verdict \in {"sent", "failed", "blocked", "held"} :
                /\ sender'[s].verdict = [sender[s].verdict EXCEPT ![n] = verdict]
                /\ verdict = "sent" => posts' = [posts EXCEPT ![n] = @ + 1]
                /\ verdict \in {"blocked", "held"} => posts' = posts
                /\ posts' = posts \/ posts' = [posts EXCEPT ![n] = @ + 1]
    BY <1>4, <2>0, Turn
  <2>3. CASE sender'[s].todo = sender[s].todo /\ sender'[s].verdict = sender[s].verdict /\ posts' = posts
    <3>1. \A q \in Senders : (Holds(q, m)' <=> Holds(q, m)) /\ sender'[q].todo = sender[q].todo /\ sender'[q].verdict = sender[q].verdict
      BY <2>1, <2>3 DEF Holds, Works, Written
    <3> QED BY <1>d, <2>1, <2>3, <3>1 DEF MessageOK, Holds, Works, Written
  <2>4. ASSUME NEW verdict \in {"sent", "failed", "blocked", "held"},
               sender'[s].todo = sender[s].todo \ {n}, sender'[s].verdict = [sender[s].verdict EXCEPT ![n] = verdict],
               verdict = "sent" => posts' = [posts EXCEPT ![n] = @ + 1],
               verdict \in {"blocked", "held"} => posts' = posts,
               posts' = posts \/ posts' = [posts EXCEPT ![n] = @ + 1]
        PROVE  MessageOK(m)'
    <3>0. Holds(s, n) /\ \A q \in Senders : Holds(q, m)' <=> Holds(q, m)
      BY <1>0, <2>1, <2>4 DEF Holds, Works, Written
    <3>1. CASE n # m
      <4>1. posts'[m] = posts[m] /\ \A q \in Senders : /\ m \in sender'[q].todo <=> m \in sender[q].todo
                                                       /\ sender'[q].verdict[m] = sender[q].verdict[m]
        BY <1>0, <2>1, <2>4, <3>1
      <4> QED BY <1>d, <2>1, <3>0, <4>1 DEF MessageOK, Holds, Works, Written
    <3>2. CASE n = m
      <4>1. \A q \in Senders : Holds(q, m)' => q = s
        BY <1>d, <3>0, <3>2 DEF MessageOK, Holds, Works, Written
      <4>2. Holds(s, m) /\ posts[m] = 0 /\ m \notin sender'[s].todo /\ sender'[s].verdict[m] = verdict
        BY <1>0, <1>d, <2>1, <2>4, <3>0, <3>2 DEF MessageOK
      <4>3. posts'[m] <= 1 /\ (verdict = "sent" => posts'[m] = 1) /\ (verdict \in {"blocked", "held"} => posts'[m] = 0)
        BY <1>0, <2>4, <3>2, <4>2
      <4>4. Holds(s, m)' /\ outbox[m].status \in {"open", "queued"} /\ ~outbox[m].acknowledged
        BY <1>d, <3>0, <4>2 DEF MessageOK, Holds, Works, Written
      <4> QED BY <2>1, <2>4, <4>1, <4>2, <4>3, <4>4 DEF MessageOK, Holds, Works, Written
    <3> QED BY <3>1, <3>2
  <2> QED BY <2>2, <2>3, <2>4
<1>5. ASSUME NEW s \in Senders, CommitFlush(s) PROVE MessageOK(m)'
  <2> DEFINE verdict == sender[s].verdict[m]
  <2>0. sender' = [sender EXCEPT ![s] = FreeSender] /\ posts' = posts /\ sender[s].todo = {}
    BY <1>5 DEF CommitFlush, Sends
  <2>1. verdict \in Verdicts
    BY <1>0
  <2>2. /\ outbox'[m].status = IF verdict = "none" THEN outbox[m].status ELSE verdict
        /\ verdict = "none" => outbox'[m] = outbox[m]
        /\ outbox'[m].acknowledged => outbox[m].acknowledged \/ verdict = "sent"
    <3>1. outbox'[m] = IF verdict = "none" THEN outbox[m]
                       ELSE [outbox[m] EXCEPT !.status = verdict,
                               !.acknowledged = @ \/ m \in {n \in Outbox : sender[s].verdict[n] = "sent"}]
      BY <1>5 DEF CommitFlush
    <3>2. outbox[m] \in Outmail
      BY <1>0
    <3> HIDE DEF verdict
    <3>3. m \in {n \in Outbox : sender[s].verdict[n] = "sent"} <=> verdict = "sent"
      BY DEF verdict
    <3> QED BY <3>1, <3>2, <3>3 DEF Outmail
  <2>3. ~Holds(s, m)' /\ \A q \in Senders : q # s => sender'[q] = sender[q]
    BY <1>0, <1>f, <2>0
  <2>4. Holds(s, m) <=> verdict # "none"
    BY <1>e, <2>0
  <2> HIDE DEF verdict
  <2>5. CASE verdict = "none"
    BY <1>b, <2>0, <2>2, <2>3, <2>4, <2>5 DEF Holds, Works, Written
  <2>6. CASE verdict # "none"
    <3>1. \A q \in Senders : ~Holds(q, m)'
      <4>1. \A q \in Senders : q # s => ~Holds(q, m)
        BY <1>d, <2>4, <2>6 DEF MessageOK
      <4> QED BY <2>3, <4>1 DEF Holds, Works, Written
    <3>2. /\ posts[m] <= 1 /\ ~outbox[m].acknowledged /\ (verdict = "sent" => posts[m] = 1)
          /\ verdict \in {"blocked", "held"} => posts[m] = 0
      BY <1>d, <2>4, <2>6 DEF MessageOK, verdict
    <3>3. verdict \in {"sent", "failed", "blocked", "held"}
      BY <2>1, <2>6 DEF Verdicts
    <3>4. posts'[m] = posts[m] /\ posts[m] \in Nat
      BY <1>0, <2>0
    <3> QED BY <2>2, <2>6, <3>1, <3>2, <3>3, <3>4 DEF MessageOK
  <2> QED BY <2>5, <2>6
<1>6. ASSUME NEW n \in Outbox, NEW receipt \in {"delivered", "failed"}, AcknowledgeStatus(n, receipt) PROVE MessageOK(m)'
  <2>1. /\ outbox' = [outbox EXCEPT ![n] = [outbox[n] EXCEPT !.receipt = receipt,
                                              !.status = IF receipt = "failed" THEN "failed" ELSE @]]
        /\ outbox[n].acknowledged /\ UNCHANGED <<sender, posts>>
    BY <1>0, <1>6 DEF AcknowledgeStatus
  <2>2. CASE n # m
    <3>1. outbox'[m] = outbox[m]
      BY <1>0, <2>1, <2>2
    <3> QED BY <1>b, <2>1, <3>1
  <2>3. CASE n = m
    <3>1. /\ outbox'[m].status = outbox[m].status \/ outbox'[m].status = "failed"
          /\ outbox'[m].acknowledged /\ outbox[m].acknowledged
      BY <1>0, <2>1, <2>3 DEF Outmail
    <3>2. \A q \in Senders : ~Holds(q, m)
      BY <1>d, <3>1 DEF MessageOK
    <3>3. \A q \in Senders : ~Holds(q, m)'
      BY <2>1, <3>2 DEF Holds, Works, Written
    <3> QED BY <1>d, <2>1, <3>1, <3>3 DEF MessageOK
  <2> QED BY <2>2, <2>3
<1>7. ASSUME (\E l \in Recipients : OptOut(l) \/ CooldownOver(l)) \/ Midnight \/ UNCHANGED outboundVars PROVE MessageOK(m)'
  <2>1. UNCHANGED <<outbox, sender, posts>>
    BY <1>7 DEF OptOut, CooldownOver, Midnight, outboundVars
  <2> QED BY <1>b, <2>1
<1>8. CASE OutboundRestart
  <2>1. /\ posts' = posts /\ \A q \in Senders : ~Holds(q, m)'
        /\ \A q \in Senders : sender[q].verdict[m] = "none"
    <3>1. \A q \in Senders : sender'[q] = FreeSender
      BY <1>8 DEF OutboundRestart
    <3>2. \A q \in Senders : m \notin Written(q)
      BY <1>z, <1>8 DEF OutboundRestart
    <3> QED BY <1>8, <1>f, <3>1, <3>2 DEF OutboundRestart, Written
  <2>2. /\ outbox[m].status = "open" => outbox'[m].status = "undone"
        /\ outbox[m].status # "open" => outbox'[m].status = outbox[m].status
        /\ outbox'[m].acknowledged = outbox[m].acknowledged
    BY <1>0, <1>8 DEF OutboundRestart, Outmail
  <2>3. \A q \in Senders : Holds(q, m) => posts[m] = 0
    BY <1>d, <1>e, <2>1 DEF MessageOK
  <2>4. outbox[m].status \notin {"sent", "failed"} => posts[m] = 0
    BY <1>0, <1>d, <2>3 DEF MessageOK
  <2> QED BY <1>d, <2>1, <2>2, <2>4 DEF MessageOK
<1> QED BY <1>1, <1>2, <1>3, <1>4, <1>5, <1>6, <1>7, <1>8, <1>9 DEF OutboundNext

\* A message of which this is true is posted once.
LEMMA PostsOnce == PostedInv => PostedOnce
<1> SUFFICES ASSUME PostedInv, NEW m \in Outbox \ tangled
             PROVE  /\ posts[m] <= 1
                    /\ outbox[m].status = "sent" => posts[m] = 1
                    /\ outbox[m].status \in {"blocked", "held"} => posts[m] = 0
  BY DEF PostedOnce
<1> QED BY DEF PostedInv, MessageOK

-----------------------------------------------------------------------------
(* The messages accepted and those in flight: a request passes the gate only where *)
(* a limit is not reached, and has one WhatsApp message. *)

Everyone == Recipients \cup {Anyone}
Flying(s, m) ==
  /\ outbox[m].channel = "whatsapp"
  /\ (sender[s].pc = "post" /\ m \in sender[s].todo) \/ sender[s].verdict[m] = "sent"
Airborne(R) == {s \in Senders : \E m \in Outbox : Flying(s, m) /\ outbox[m].to \in R}
Log(limit) == IF limit = "day" THEN today ELSE recent
SentTo(limit, R) == {m \in Log(limit) : outbox[m].channel = "whatsapp" /\ outbox[m].status = "sent" /\ outbox[m].to \in R}

\* With what is in the air, the limits are kept but for one message of each other sender.
LimitInv ==
  /\ Cardinality(SentTo("day", Everyone)) + Cardinality(Airborne(Everyone)) < DailyLimit + Cardinality(Senders)
  /\ \A l \in Recipients : Cardinality(SentTo("lead", {l})) + Cardinality(Airborne({l})) <= Cardinality(Senders)

\* What comes down is no longer in the air.
LEMMA Balance ==
  ASSUME NEW S, NEW F, IsFiniteSet(S), IsFiniteSet(F), NEW S2, NEW F2, NEW m, NEW s,
         F2 \subseteq F, (S2 \subseteq S) \/ (S2 \subseteq S \cup {m} /\ s \in F /\ s \notin F2)
  PROVE  Cardinality(S2) + Cardinality(F2) <= Cardinality(S) + Cardinality(F)
<1>0. Cardinality(S) \in Nat /\ Cardinality(F) \in Nat
  BY FS_CardinalityType
<1>1. CASE S2 \subseteq S
  <2>1. /\ Cardinality(S2) \in Nat /\ Cardinality(S2) <= Cardinality(S)
        /\ Cardinality(F2) \in Nat /\ Cardinality(F2) <= Cardinality(F)
    BY <1>1, FS_Subset, FS_CardinalityType
  <2> QED BY <1>0, <2>1
<1>2. CASE S2 \subseteq S \cup {m} /\ s \in F /\ s \notin F2
  <2>1. /\ IsFiniteSet(S \cup {m}) /\ Cardinality(S \cup {m}) \in Nat
        /\ Cardinality(S \cup {m}) <= Cardinality(S) + 1
    <3>1. /\ IsFiniteSet(S \cup {m})
          /\ Cardinality(S \cup {m}) = IF m \in S THEN Cardinality(S) ELSE Cardinality(S) + 1
      BY FS_AddElement
    <3> QED BY <1>0, <3>1
  <2>2. Cardinality(S2) \in Nat /\ Cardinality(S2) <= Cardinality(S \cup {m})
    BY <1>2, <2>1, FS_Subset, FS_CardinalityType
  <2>3. /\ IsFiniteSet(F \ {s}) /\ Cardinality(F \ {s}) = Cardinality(F) - 1
    BY <1>2, FS_RemoveElement
  <2>4. Cardinality(F2) \in Nat /\ Cardinality(F2) <= Cardinality(F \ {s})
    <3>1. F2 \subseteq F \ {s}
      BY <1>2
    <3> QED BY <2>3, <3>1, FS_Subset, FS_CardinalityType
  <2> QED BY <1>0, <2>1, <2>2, <2>3, <2>4
<1> QED BY <1>1, <1>2

\* What is counted is finite.
LEMMA Finite ==
  /\ \A T \in SUBSET Outbox : IsFiniteSet(T) /\ Cardinality(T) \in Nat
  /\ \A R : IsFiniteSet(Airborne(R)) /\ Cardinality(Airborne(R)) \in Nat /\ Cardinality(Airborne(R)) <= Cardinality(Senders)
  /\ Cardinality(Senders) \in Nat
<1>1. IsFiniteSet(Outbox)
  BY FS_Interval, OutboundAssumption DEF Outbox
<1>2. IsFiniteSet(Senders)
  BY OutboundAssumption
<1>3. \A T \in SUBSET Outbox : IsFiniteSet(T) /\ Cardinality(T) \in Nat
  BY <1>1, FS_Subset, FS_CardinalityType
<1>4. \A R : Airborne(R) \subseteq Senders
  BY DEF Airborne
<1>5. \A F \in SUBSET Senders : IsFiniteSet(F) /\ Cardinality(F) \in Nat /\ Cardinality(F) <= Cardinality(Senders)
  BY <1>2, FS_Subset, FS_CardinalityType
<1> QED BY <1>2, <1>3, <1>4, <1>5, FS_CardinalityType

\* A message in flight after a step was so before, unless its gate was passed.
LEMMA FlightStep ==
  ASSUME OutboundShape, [OutboundNext]_outboundVars, NEW s \in Senders, NEW m \in Outbox,
         Flying(s, m)', ~(CheckGate(s) /\ m \in sender[s].todo /\ Gate(s, FirstOf(sender[s].todo)) = "none")
  PROVE  Flying(s, m)
<1>0. /\ sender \in [Senders -> Sender] /\ outbox \in [Outbox -> Outmail]
      /\ \A q \in Senders : SenderOK(sender[q]) /\ Carries(sender[q], outbox)
      /\ \A q \in Senders : sender[q].verdict \in [Outbox -> Verdicts]
  <2>1. sender \in [Senders -> Sender]
    BY DEF OutboundShape, OutboundTypeOK
  <2> QED BY <2>1 DEF OutboundShape, OutboundTypeOK, Sender
<1>f. /\ outbox'[m].channel = "whatsapp"
      /\ (sender'[s].pc = "post" /\ m \in sender'[s].todo) \/ sender'[s].verdict[m] = "sent"
  BY DEF Flying
\* A sender that stays, holds only rows that are written.
<1>1. ASSUME sender'[s] = sender[s] PROVE Flying(s, m)
  <2>1. Exists(m)
    BY <1>0, <1>1, <1>f DEF Carries, Rows, Exists
  <2> QED BY <1>1, <1>f, <2>1, OutboxStays DEF Flying
<1>2. ASSUME sender'[s].pc # "post", \A n \in Outbox : sender'[s].verdict[n] = "sent" => sender[s].verdict[n] = "sent"
      PROVE  Flying(s, m)
  <2>1. sender[s].verdict[m] = "sent" /\ Exists(m)
    BY <1>0, <1>2, <1>f DEF Carries, Rows, Exists
  <2> QED BY <1>2, <1>f, <2>1, OutboxStays DEF Flying
<1>3. ASSUME NEW q \in Senders, NEW x, Sends(q, x), q # s PROVE Flying(s, m)
  BY <1>0, <1>1, <1>3 DEF Sends
<1>4. ASSUME NEW to \in Recipients, CompanySend(s, to) PROVE Flying(s, m)
  <2> DEFINE x == [FreeSender EXCEPT !.pc = "list", !.own = to, !.deaf = optedOut]
  <2>1. x.pc = "list" /\ x.verdict = [n \in Outbox |-> "none"]
    BY DEF FreeSender
  <2>2. Sends(s, x)
    BY <1>4 DEF CompanySend
  <2> HIDE DEF x
  <2> QED BY <1>0, <1>2, <2>1, <2>2 DEF Sends
<1>5. ASSUME NEW to \in Everyone, SendNow(s, to) PROVE Flying(s, m)
  <2>1. PICK n \in Outbox : Sends(s, [FreeSender EXCEPT !.pc = "gate", !.todo = {n}, !.deaf = optedOut])
    BY <1>5 DEF SendNow
  <2> DEFINE x == [FreeSender EXCEPT !.pc = "gate", !.todo = {n}, !.deaf = optedOut]
  <2>2. x.pc = "gate" /\ x.verdict = [k \in Outbox |-> "none"]
    BY DEF FreeSender
  <2>3. Sends(s, x)
    BY <2>1
  <2> HIDE DEF x
  <2> QED BY <1>0, <1>2, <2>2, <2>3 DEF Sends
<1>11. ASSUME NEW to \in Everyone, SendTemplate(s, to) PROVE Flying(s, m)
  <2>1. PICK n \in Outbox : /\ Enqueue(n, "open", "template", to)
                            /\ Sends(s, [FreeSender EXCEPT !.pc = "post", !.todo = {n}])
    BY <1>11 DEF SendTemplate
  <2> DEFINE x == [FreeSender EXCEPT !.pc = "post", !.todo = {n}]
  <2>2. x.todo = {n} /\ x.verdict = [k \in Outbox |-> "none"]
    BY DEF FreeSender
  <2>3. sender'[s] = x
    BY <1>0, <2>1 DEF Sends
  <2> HIDE DEF x
  <2>4. m = n
    BY <1>f, <2>2, <2>3
  <2>5. outbox'[m].channel = "template"
    BY <1>0, <2>1, <2>4 DEF Enqueue, NoMail
  <2> QED BY <1>f, <2>5
<1>6. ASSUME ListQueue(s) PROVE Flying(s, m)
  <2> DEFINE rows == {n \in Outbox : outbox[n].status = "queued"}
             x == [sender[s] EXCEPT !.pc = "gate", !.todo = rows]
  <2>1. x.pc = "gate" /\ x.verdict = sender[s].verdict
    BY <1>0 DEF Sender
  <2>2. Sends(s, x)
    BY <1>6 DEF ListQueue
  <2> HIDE DEF x
  <2> QED BY <1>0, <1>2, <2>1, <2>2 DEF Sends
<1>7. ASSUME CheckGate(s) \/ PostOut(s) \/ PostOutFails(s) PROVE Flying(s, m)
  <2> DEFINE n == FirstOf(sender[s].todo)
  <2>0. n = FirstOf(sender[s].todo)
    OBVIOUS
  <2> HIDE DEF n
  <2>1. /\ n \in sender[s].todo /\ n \in Outbox /\ outbox' = outbox
        /\ \/ /\ CheckGate(s) /\ Gate(s, n) = "none" /\ sender'[s].pc = "post"
              /\ sender'[s].todo = sender[s].todo /\ sender'[s].verdict = sender[s].verdict
           \/ /\ sender'[s].pc = "gate" /\ sender'[s].todo = sender[s].todo \ {n}
              /\ \E verdict \in {"sent", "failed", "blocked", "held"} :
                   /\ sender'[s].verdict = [sender[s].verdict EXCEPT ![n] = verdict]
                   /\ verdict \in {"sent", "failed"} => sender[s].pc = "post"
    BY <1>7, <2>0, Turn DEF outboxRows
  <2>2. CASE /\ CheckGate(s) /\ Gate(s, n) = "none" /\ sender'[s].pc = "post"
             /\ sender'[s].todo = sender[s].todo /\ sender'[s].verdict = sender[s].verdict
    BY <1>f, <2>0, <2>1, <2>2 DEF Flying
  <2>3. ASSUME NEW verdict, sender'[s].pc = "gate", sender'[s].verdict = [sender[s].verdict EXCEPT ![n] = verdict],
               verdict \in {"sent", "failed"} => sender[s].pc = "post"
        PROVE  Flying(s, m)
    <3>1. CASE n # m
      BY <1>0, <1>f, <2>1, <2>3, <3>1 DEF Flying
    <3>2. CASE n = m
      BY <1>0, <1>f, <2>1, <2>3, <3>2 DEF Flying
    <3> QED BY <3>1, <3>2
  <2> QED BY <2>1, <2>2, <2>3
<1>8. ASSUME CommitFlush(s) \/ OutboundRestart PROVE Flying(s, m)
  <2>1. sender'[s] = FreeSender
    BY <1>0, <1>8 DEF CommitFlush, OutboundRestart, Sends
  <2> QED BY <1>2, <2>1 DEF FreeSender
<1>9. ASSUME UNCHANGED sender PROVE Flying(s, m)
  BY <1>1, <1>9
<1>10. \/ UNCHANGED sender \/ OutboundRestart
       \/ \E q \in Senders : \E x : Sends(q, x) /\ q # s
       \/ CommitFlush(s) \/ CheckGate(s) \/ PostOut(s) \/ PostOutFails(s) \/ ListQueue(s)
       \/ (\E to \in Everyone : SendNow(s, to) \/ SendTemplate(s, to)) \/ (\E to \in Recipients : CompanySend(s, to))
  <2>1. ASSUME NEW q \in Senders, q # s,
               \/ \E l \in Recipients : CompanySend(q, l)
               \/ \E to \in Recipients \cup {Anyone} : SendNow(q, to) \/ SendTemplate(q, to)
               \/ ListQueue(q) \/ CheckGate(q) \/ PostOut(q) \/ PostOutFails(q) \/ CommitFlush(q)
        PROVE  \E x : Sends(q, x)
    <3>1. CASE CheckGate(q)
      BY <3>1 DEF CheckGate
    <3>2. CASE PostOut(q) \/ PostOutFails(q)
      BY <3>2 DEF PostOut, PostOutFails, Judge
    <3> QED BY <2>1, <3>1, <3>2 DEF CompanySend, SendNow, SendTemplate, ListQueue, CommitFlush
  <2>2. (\E n \in Outbox, receipt \in {"delivered", "failed"} : AcknowledgeStatus(n, receipt))
        \/ (\E l \in Recipients : OptOut(l) \/ CooldownOver(l)) \/ Midnight \/ UNCHANGED outboundVars => UNCHANGED sender
    BY DEF AcknowledgeStatus, OptOut, CooldownOver, Midnight, outboundVars
  <2> QED BY <2>1, <2>2 DEF OutboundNext, Everyone
<1> QED BY <1>3, <1>4, <1>5, <1>6, <1>7, <1>8, <1>9, <1>10, <1>11

\* So is the balance of a limit: what is counted was in flight.  At a gate that is passed,
\* nothing new is counted.
LEMMA BalanceStep ==
  ASSUME OutboundShape, [OutboundNext]_outboundVars, NEW R, NEW limit
  PROVE  \/ Cardinality(SentTo(limit, R)') + Cardinality(Airborne(R)') <= Cardinality(SentTo(limit, R)) + Cardinality(Airborne(R))
         \/ \E s \in Senders : /\ CheckGate(s) /\ Gate(s, FirstOf(sender[s].todo)) = "none"
                               /\ outbox[FirstOf(sender[s].todo)].channel = "whatsapp"
                               /\ outbox[FirstOf(sender[s].todo)].to \in R
                               /\ SentTo(limit, R)' \subseteq SentTo(limit, R)
<1>0. /\ \A s \in Senders : SenderOK(sender[s]) /\ Carries(sender[s], outbox)
      /\ Log(limit) \subseteq Outbox /\ Log(limit)' \subseteq Outbox
      /\ \A m \in Log(limit) : outbox[m].status # "none"
  <2>1. OutboundShape'
    BY OutboundShapeStep
  <2> QED BY <2>1 DEF OutboundShape, OutboundTypeOK, RowsOK, Log
<1>w. ASSUME NEW m \in Log(limit)', m \notin Log(limit)
      PROVE  \E s \in Senders : CommitFlush(s) /\ sender[s].verdict[m] = "sent"
  <2>1. ASSUME NEW s \in Senders, CommitFlush(s) PROVE sender[s].verdict[m] = "sent"
    <3>1. m \in {n \in Outbox : sender[s].verdict[n] = "sent"}
      BY <1>w, <2>1 DEF CommitFlush, Log
    <3> QED BY <3>1
  <2>2. (\A s \in Senders : ~CommitFlush(s)) => today' \subseteq today /\ recent' \subseteq recent
    BY DEF OutboundNext, outboundVars, outboxRows, CompanySend, SendNow, SendTemplate, ListQueue, CheckGate, PostOut, PostOutFails,
       AcknowledgeStatus, OptOut, CooldownOver, Midnight, OutboundRestart
  <2> QED BY <1>w, <2>1, <2>2 DEF Log
\* A row that is counted after the step was counted before, or is brought in by a commit.
<1>1. ASSUME NEW m \in SentTo(limit, R)', m \notin SentTo(limit, R)
      PROVE  \E s \in Senders : CommitFlush(s) /\ Flying(s, m) /\ m \in Outbox /\ outbox[m].to \in R
  <2>1. m \in Log(limit)' /\ outbox'[m].channel = "whatsapp" /\ outbox'[m].status = "sent" /\ outbox'[m].to \in R
    BY <1>1 DEF SentTo
  <2>0. m \in Outbox
    BY <1>0, <2>1
  <2>2. Exists(m)
    BY <1>0, <1>w, <2>0, <2>1 DEF Exists, Carries, Rows
  <2>3. /\ outbox[m].channel = "whatsapp" /\ outbox[m].to \in R
        /\ outbox[m].status = "sent" \/ \E s \in Senders : CommitFlush(s) /\ sender[s].verdict[m] = "sent"
    BY <2>0, <2>1, <2>2, OutboxStays
  <2>4. \E s \in Senders : CommitFlush(s) /\ sender[s].verdict[m] = "sent"
    BY <1>1, <1>w, <2>1, <2>3 DEF SentTo
  <2> QED BY <2>0, <2>3, <2>4 DEF Flying
<1>a. sender \in [Senders -> Sender] /\ \A q \in Senders : sender[q].todo \in SUBSET Outbox
  <2>1. sender \in [Senders -> Sender]
    BY DEF OutboundShape, OutboundTypeOK
  <2> QED BY <2>1 DEF Sender
<1>b. ASSUME NEW s \in Senders, NEW m \in Outbox, Flying(s, m) PROVE Exists(m) /\ Rows(sender[s]) = {m}
  BY <1>0, <1>b DEF Flying, Carries, Rows, Exists
<1>c. /\ IsFiniteSet(SentTo(limit, R)) /\ IsFiniteSet(Airborne(R))
  <2>1. SentTo(limit, R) \subseteq Outbox
    BY <1>0 DEF SentTo
  <2> QED BY <2>1, Finite
<1>2. ASSUME NEW s \in Senders, CommitFlush(s)
      PROVE  Cardinality(SentTo(limit, R)') + Cardinality(Airborne(R)') <= Cardinality(SentTo(limit, R)) + Cardinality(Airborne(R))
  <2>1. /\ sender' = [sender EXCEPT ![s] = FreeSender] /\ sender[s].pc = "gate" /\ sender[s].todo = {}
        /\ FreeSender.pc = "idle" /\ FreeSender.verdict = [m \in Outbox |-> "none"]
    BY <1>2 DEF CommitFlush, Sends, Stands, FreeSender
  <2>2. \A q \in Senders : CommitFlush(q) => q = s
    <3> SUFFICES ASSUME NEW q \in Senders, CommitFlush(q), q # s PROVE FALSE
      OBVIOUS
    <3>1. sender' = [sender EXCEPT ![q] = FreeSender]
      BY DEF CommitFlush, Sends
    <3>2. sender'[s] = sender[s]
      BY <1>a, <3>1
    <3> QED BY <1>a, <2>1, <3>2
  <2>3. \A q \in Senders : ~CheckGate(q)
    <3> SUFFICES ASSUME NEW q \in Senders, CheckGate(q) PROVE FALSE
      OBVIOUS
    <3>1. q # s
      BY <2>1 DEF CheckGate
    <3>2. sender'[s] = sender[s]
      BY <1>a, <3>1 DEF CheckGate, Sends
    <3> QED BY <1>a, <2>1, <3>2
  <2>4. Airborne(R)' \subseteq Airborne(R) /\ s \notin Airborne(R)'
    <3>1. ASSUME NEW q \in Senders, NEW m \in Outbox, Flying(q, m)', outbox'[m].to \in R PROVE q # s /\ q \in Airborne(R)
      <4>1. Flying(q, m)
        BY <2>3, <3>1, FlightStep
      <4>2. Exists(m)
        BY <1>b, <4>1
      <4>3. outbox[m].to \in R
        BY <3>1, <4>2, OutboxStays
      <4>4. q # s
        BY <1>a, <2>1, <3>1 DEF Flying
      <4> QED BY <4>1, <4>3, <4>4 DEF Airborne
    <3> QED BY <3>1 DEF Airborne
  <2>5. CASE SentTo(limit, R)' \subseteq SentTo(limit, R)
    BY <1>c, <2>4, <2>5, Balance
  <2>6. ASSUME NEW m \in SentTo(limit, R)', m \notin SentTo(limit, R)
        PROVE  Cardinality(SentTo(limit, R)') + Cardinality(Airborne(R)') <= Cardinality(SentTo(limit, R)) + Cardinality(Airborne(R))
    <3>1. Flying(s, m) /\ m \in Outbox /\ outbox[m].to \in R
      BY <1>1, <2>2, <2>6
    <3>2. s \in Airborne(R)
      BY <3>1 DEF Airborne
    <3>3. ASSUME NEW n \in SentTo(limit, R)', n \notin SentTo(limit, R) PROVE n = m
      <4>1. Flying(s, n) /\ n \in Outbox
        BY <1>1, <2>2, <3>3
      <4>2. Rows(sender[s]) = {m} /\ Rows(sender[s]) = {n}
        BY <1>b, <3>1, <4>1
      <4> QED BY <4>2
    <3>4. SentTo(limit, R)' \subseteq SentTo(limit, R) \cup {m}
      BY <3>3
    <3> QED BY <1>c, <2>4, <3>2, <3>4, Balance
  <2> QED BY <2>5, <2>6
<1>3. ASSUME \A s \in Senders : ~CommitFlush(s), Airborne(R)' \subseteq Airborne(R)
      PROVE  Cardinality(SentTo(limit, R)') + Cardinality(Airborne(R)') <= Cardinality(SentTo(limit, R)) + Cardinality(Airborne(R))
  <2>1. SentTo(limit, R)' \subseteq SentTo(limit, R)
    BY <1>1, <1>3
  <2> QED BY <1>3, <1>c, <2>1, Balance
<1>4. ASSUME \A s \in Senders : ~CommitFlush(s), NEW s \in Airborne(R)', s \notin Airborne(R)
      PROVE  /\ CheckGate(s) /\ Gate(s, FirstOf(sender[s].todo)) = "none"
             /\ outbox[FirstOf(sender[s].todo)].channel = "whatsapp" /\ outbox[FirstOf(sender[s].todo)].to \in R
             /\ SentTo(limit, R)' \subseteq SentTo(limit, R)
  <2>1. PICK m \in Outbox : Flying(s, m)' /\ outbox'[m].to \in R
    BY <1>4 DEF Airborne
  <2>0. s \in Senders
    BY <1>4 DEF Airborne
  <2>2. ~(Flying(s, m) /\ outbox[m].to \in R)
    BY <1>4, <2>0 DEF Airborne
  <2>3. ~Flying(s, m)
    <3> SUFFICES ASSUME Flying(s, m) PROVE FALSE
      OBVIOUS
    <3>1. Exists(m)
      BY <1>b, <2>0
    <3>2. outbox[m].to \in R
      BY <2>1, <3>1, OutboxStays
    <3> QED BY <2>2, <3>2
  <2>4. CheckGate(s) /\ m \in sender[s].todo /\ Gate(s, FirstOf(sender[s].todo)) = "none"
    BY <2>0, <2>1, <2>3, FlightStep
  <2>5. outbox' = outbox
    BY <2>4 DEF CheckGate, outboxRows
  <2>6. outbox[m].channel = "whatsapp" /\ outbox[m].to \in R
    BY <2>1, <2>5 DEF Flying
  <2>7. FirstOf(sender[s].todo) = m
    <3>1. FirstOf(sender[s].todo) \in sender[s].todo
      BY <1>a, <2>0, <2>4, Least
    <3>2. Rows(sender[s]) = {m}
      BY <1>0, <2>0, <2>4, <2>6 DEF Carries, Rows
    <3> QED BY <3>1, <3>2 DEF Rows
  <2>8. SentTo(limit, R)' \subseteq SentTo(limit, R)
    BY <1>1, <1>4
  <2> QED BY <2>4, <2>6, <2>7, <2>8
<1>5. \A s : s \in Airborne(R)' => s \in Senders
  BY DEF Airborne
<1> QED BY <1>2, <1>3, <1>4, <1>5

LEMMA LimitInit == OutboundInit => LimitInv
<1> SUFFICES ASSUME OutboundInit PROVE LimitInv
  OBVIOUS
<1>1. \A R, limit : SentTo(limit, R) = {} /\ Airborne(R) = {}
  BY DEF OutboundInit, SentTo, Log, Airborne, Flying, NoMail
<1>2. Cardinality({}) = 0
  BY FS_EmptySet
<1>3. Cardinality(Senders) \in Nat /\ Cardinality(Senders) # 0 /\ DailyLimit \in Nat
  BY FS_EmptySet, Finite, OutboundAssumption
<1>4. /\ Cardinality(SentTo("day", Everyone)) = 0 /\ Cardinality(Airborne(Everyone)) = 0
      /\ \A l \in Recipients : Cardinality(SentTo("lead", {l})) = 0 /\ Cardinality(Airborne({l})) = 0
  BY <1>1, <1>2
<1> QED BY <1>3, <1>4 DEF LimitInv

\* The gate is passed where a limit is not reached, by one sender with one message at a time.
LEMMA LimitStep ==
  ASSUME OutboundShape, LimitInv, [OutboundNext]_outboundVars PROVE LimitInv'
<1>0. \A m \in Outbox : outbox[m].to \in Everyone
  BY DEF OutboundShape, OutboundTypeOK, Outmail, Everyone
<1>1. /\ Cardinality(Senders) \in Nat /\ DailyLimit \in Nat /\ IsFiniteSet(Counts(0, today))
      /\ \A R : /\ Cardinality(Airborne(R)) \in Nat
                /\ Cardinality(Airborne(R)') \in Nat /\ Cardinality(Airborne(R)') <= Cardinality(Senders)
      /\ \A limit, R : /\ Cardinality(SentTo(limit, R)) \in Nat /\ IsFiniteSet(SentTo(limit, R))
                       /\ Cardinality(SentTo(limit, R)') \in Nat
  <2>0. OutboundShape'
    BY OutboundShapeStep
  <2>1. \A limit, R : SentTo(limit, R) \in SUBSET Outbox /\ SentTo(limit, R)' \in SUBSET Outbox
    BY <2>0 DEF SentTo, Log, OutboundShape, OutboundTypeOK
  <2>2. Counts(0, today) \in SUBSET Outbox
    BY DEF Counts, OutboundShape, OutboundTypeOK
  <2>3. \A R : Airborne(R)' \subseteq Senders
    BY DEF Airborne
  <2>4. \A F \in SUBSET Senders : Cardinality(F) \in Nat /\ Cardinality(F) <= Cardinality(Senders)
    BY FS_Subset, FS_CardinalityType, OutboundAssumption
  <2> QED BY <2>1, <2>2, <2>3, <2>4, Finite, OutboundAssumption
\* Where a gate is passed, fewer than the limit were counted, and none to this lead.
<1>2. ASSUME NEW s \in Senders, NEW m \in Outbox, Gate(s, m) = "none", outbox[m].channel = "whatsapp"
      PROVE  /\ Cardinality(SentTo("day", Everyone)) < DailyLimit
             /\ \A l \in Recipients : outbox[m].to = l => Cardinality(SentTo("lead", {l})) = 0
  <2>1. ~Full(s) /\ ~Cooling(s, m)
    BY <1>2 DEF Gate
  <2>2. Cardinality(SentTo("day", Everyone)) < DailyLimit
    <3>1. SentTo("day", Everyone) \subseteq Counts(0, today) /\ Counts(s, today) = Counts(0, today)
      BY DEF SentTo, Log, Counts
    <3>2. /\ Cardinality(SentTo("day", Everyone)) <= Cardinality(Counts(0, today))
          /\ Cardinality(Counts(0, today)) \in Nat
      BY <1>1, <3>1, FS_Subset, FS_CardinalityType
    <3>3. ~(Cardinality(Counts(0, today)) >= DailyLimit)
      BY <2>1, <3>1 DEF Full
    <3> QED BY <1>1, <3>2, <3>3
  <2>3. ASSUME NEW l \in Recipients, outbox[m].to = l PROVE Cardinality(SentTo("lead", {l})) = 0
    <3>1. SentTo("lead", {l}) = {}
      BY <2>1, <2>3, OutboundAssumption DEF SentTo, Log, Cooling, Counts
    <3> QED BY <3>1, FS_EmptySet
  <2> QED BY <2>2, <2>3
<1>a. ASSUME NEW s \in Senders, CheckGate(s) PROVE FirstOf(sender[s].todo) \in Outbox
  <2>1. sender[s].todo # {} /\ sender[s].todo \in SUBSET Outbox
    BY <1>a DEF CheckGate, OutboundShape, OutboundTypeOK, Sender
  <2> QED BY <2>1, Least
\* What is counted does not grow where the gate is passed.
<1>b. ASSUME NEW limit, NEW R, SentTo(limit, R)' \subseteq SentTo(limit, R)
      PROVE  Cardinality(SentTo(limit, R)') <= Cardinality(SentTo(limit, R))
  BY <1>1, <1>b, FS_Subset
<1>3. Cardinality(SentTo("day", Everyone)') + Cardinality(Airborne(Everyone)') < DailyLimit + Cardinality(Senders)
  <2>1. CASE Cardinality(SentTo("day", Everyone)') + Cardinality(Airborne(Everyone)')
               <= Cardinality(SentTo("day", Everyone)) + Cardinality(Airborne(Everyone))
    BY <1>1, <2>1 DEF LimitInv
  <2>2. ASSUME NEW s \in Senders, CheckGate(s), Gate(s, FirstOf(sender[s].todo)) = "none",
               outbox[FirstOf(sender[s].todo)].channel = "whatsapp", SentTo("day", Everyone)' \subseteq SentTo("day", Everyone)
        PROVE  Cardinality(SentTo("day", Everyone)') + Cardinality(Airborne(Everyone)') < DailyLimit + Cardinality(Senders)
    <3>1. Cardinality(SentTo("day", Everyone)) < DailyLimit
      BY <1>2, <1>a, <2>2
    <3>2. Cardinality(SentTo("day", Everyone)') <= Cardinality(SentTo("day", Everyone))
      BY <1>b, <2>2
    <3> QED BY <1>1, <3>1, <3>2
  <2> QED BY <2>1, <2>2, BalanceStep
<1>4. ASSUME NEW l \in Recipients
      PROVE  Cardinality(SentTo("lead", {l})') + Cardinality(Airborne({l})') <= Cardinality(Senders)
  <2>1. CASE Cardinality(SentTo("lead", {l})') + Cardinality(Airborne({l})')
               <= Cardinality(SentTo("lead", {l})) + Cardinality(Airborne({l}))
    BY <1>1, <2>1 DEF LimitInv
  <2>2. ASSUME NEW s \in Senders, CheckGate(s), Gate(s, FirstOf(sender[s].todo)) = "none",
               outbox[FirstOf(sender[s].todo)].channel = "whatsapp", outbox[FirstOf(sender[s].todo)].to = l,
               SentTo("lead", {l})' \subseteq SentTo("lead", {l})
        PROVE  Cardinality(SentTo("lead", {l})') + Cardinality(Airborne({l})') <= Cardinality(Senders)
    <3>1. Cardinality(SentTo("lead", {l})) = 0
      BY <1>2, <1>a, <2>2
    <3>2. Cardinality(SentTo("lead", {l})') <= Cardinality(SentTo("lead", {l}))
      BY <1>b, <2>2
    <3> QED BY <1>1, <3>1, <3>2
  <2>3. \/ Cardinality(SentTo("lead", {l})') + Cardinality(Airborne({l})')
               <= Cardinality(SentTo("lead", {l})) + Cardinality(Airborne({l}))
        \/ \E s \in Senders : /\ CheckGate(s) /\ Gate(s, FirstOf(sender[s].todo)) = "none"
                              /\ outbox[FirstOf(sender[s].todo)].channel = "whatsapp"
                              /\ outbox[FirstOf(sender[s].todo)].to \in {l}
                              /\ SentTo("lead", {l})' \subseteq SentTo("lead", {l})
    BY BalanceStep
  <2> QED BY <2>1, <2>2, <2>3
<1> QED BY <1>3, <1>4 DEF LimitInv

\* So the counts alone keep the limits.
LEMMA LimitsKept == OutboundShape /\ LimitInv => LimitsHold
<1> SUFFICES ASSUME OutboundShape, LimitInv PROVE LimitsHold
  OBVIOUS
<1>1. \A m \in Outbox : outbox[m].to \in Everyone
  BY DEF OutboundShape, OutboundTypeOK, Outmail, Everyone
<1>2. SentOn(today) = SentTo("day", Everyone)
  BY <1>1 DEF SentOn, SentTo, Log, OutboundShape, OutboundTypeOK
<1>3. \A l \in Recipients : {m \in SentOn(recent) : outbox[m].to = l} = SentTo("lead", {l})
  BY DEF SentOn, SentTo, Log
<1>4. /\ \A R : Cardinality(Airborne(R)) \in Nat
      /\ \A limit, R : Cardinality(SentTo(limit, R)) \in Nat
      /\ Cardinality(Senders) \in Nat /\ DailyLimit \in Nat
  <2>1. \A limit, R : SentTo(limit, R) \in SUBSET Outbox
    BY DEF SentTo, Log, OutboundShape, OutboundTypeOK
  <2> QED BY <2>1, Finite, OutboundAssumption
<1>5. Cardinality(SentOn(today)) < DailyLimit + Cardinality(Senders)
  BY <1>2, <1>4 DEF LimitInv
<1> DEFINE ToLead(l) == {m \in SentOn(recent) : outbox[m].to = l}
<1>6. \A l \in Recipients : Cardinality(ToLead(l)) <= Cardinality(Senders)
  <2> SUFFICES ASSUME NEW l \in Recipients PROVE Cardinality(ToLead(l)) <= Cardinality(Senders)
    OBVIOUS
  <2>1. ToLead(l) = SentTo("lead", {l})
    BY <1>3
  <2>2. Cardinality(SentTo("lead", {l})) + Cardinality(Airborne({l})) <= Cardinality(Senders)
    BY DEF LimitInv
  <2> HIDE DEF ToLead
  <2> QED BY <1>4, <2>1, <2>2
<1> QED BY <1>5, <1>6 DEF LimitsHold

\* The variables keep their types (whatsapp_sender.py, telegram_sender.py).
THEOREM OutboundTypeCorrect == OutboundSpec => []OutboundTypeOK
<1>1. OutboundShape => OutboundTypeOK
  BY DEF OutboundShape
<1> QED BY <1>1, OutboundShapeInit, OutboundShapeStep, PTL DEF OutboundSpec

\* Nobody who had opted out when a request began gets a text from it, a message that no two
\* flushes held goes out once, and the texts confirmed as sent exceed the limits by no more than
\* one of each other sender (whatsapp_sender.py:13), whatever templates go out beside them.
THEOREM OutboundCorrect == OutboundSpec => []OutboundSafe
<1>1. OutboundInit => HeedInv
  BY DEF OutboundInit, HeedInv, FreeSender
<1>2. HeedInv /\ PostedOnce /\ LimitsHold => OutboundSafe
  BY DEF HeedInv, OutboundSafe
<1> QED BY <1>1, <1>2, OutboundShapeInit, OutboundShapeStep, HeedStep, PostedInit, PostedStep, PostsOnce,
       LimitInit, LimitStep, LimitsKept, PTL DEF OutboundSpec
=============================================================================
