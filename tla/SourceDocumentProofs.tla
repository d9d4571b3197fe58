------------------------ MODULE SourceDocumentProofs ------------------------
(***************************************************************************)
(* What SourceDocument guarantees for any number of sources, documents,    *)
(* suppliers and calls: the protected services create once.                *)
(*                                                                         *)
(* For an indexed service the index decides at the insert.  For a request  *)
(* of material the argument goes through the plan: while a call could      *)
(* still save the plan, nothing has been made of its order since it looked.*)
(*                                                                         *)
(* SupplierEta keeps all that, and the history of its dates is unbroken    *)
(* because the lock of an order that has changed is refused.               *)
(***************************************************************************)
EXTENDS SupplierEta, TLAPS

StandingOf(r) == {d \in Standing : docs[d].source = r}

\* Whatever is made of a root is made by the service of the root, for nobody.
MadeByItsService ==
    /\ \A d \in Existing :
          docs[d].source \in Roots =>
              docs[d].service = ServiceOf[docs[d].source] /\ docs[d].party = NoSupplier
    /\ \A d \in Existing : docs[d].service \notin Bare => docs[d].source \in Roots
    /\ \A c \in Calls :
          calls[c] # NoCall =>
              /\ calls[c].source \in Roots =>
                    calls[c].service = ServiceOf[calls[c].source]
                        /\ calls[c].party = NoSupplier
              /\ calls[c].service \notin Bare => calls[c].source \in Roots

\* A call that could save the plan has not been overtaken.
CurrentCallsFoundNone ==
    \A c \in Calls :
        InFlight(c, Planned) /\ calls[c].current => StandingOf(calls[c].source) = {}

OnePerRoot == \A r \in Roots : \A d, e \in StandingOf(r) : d = e

SourceInv ==
    /\ TypeOK
    /\ MadeByItsService
    /\ CurrentCallsFoundNone
    /\ OnePerRoot
    /\ PlanNamesRequest

-----------------------------------------------------------------------------
(* Types and effects.                                                      *)

\* A document is not an absent one.
LEMMA DocumentPresent == \A x \in Document : x # Absent
  BY DEF Document, Absent, Services, Bare, Indexed, Planned

\* The services of the three kinds are different services.
LEMMA KindsDisjoint ==
    /\ Bare \cap Indexed = {}
    /\ Bare \cap Planned = {}
    /\ Indexed \cap Planned = {}
  BY DEF Bare, Indexed, Planned

\* What a call in flight is.
LEMMA CallTyped ==
    ASSUME TypeOK, NEW c \in Calls, calls[c] # NoCall
    PROVE  calls[c] \in Call
  BY DEF TypeOK

\* What a document that exists is.
LEMMA DocTyped ==
    ASSUME TypeOK, NEW d \in Existing
    PROVE  d \in Docs /\ docs[d] \in Document
  BY DEF TypeOK, Existing

\* The document that a call inserts.
Inserted(c) ==
    [ service |-> calls[c].service, source |-> calls[c].source,
      party |-> calls[c].party,
      docstatus |-> IF calls[c].service \in SubmittedOnInsert
                    THEN "Submitted" ELSE "Draft" ]

\* An insert adds one standing document and leaves the others alone.
LEMMA InsertAdds ==
    ASSUME TypeOK, NEW c \in Calls, calls[c] # NoCall, NEW d \in Docs, Insert(c, d)
    PROVE  /\ docs' \in [Docs -> Document \cup {Absent}]
           /\ d \notin Existing
           /\ Existing' = Existing \cup {d}
           /\ Standing' = Standing \cup {d}
           /\ docs'[d] = Inserted(c)
           /\ docs'[d].service = calls[c].service
           /\ docs'[d].source = calls[c].source
           /\ \A e \in Existing : docs'[e] = docs[e]
  <1>1. Inserted(c) \in Document /\ Inserted(c).docstatus # "Cancelled"
    BY CallTyped DEF Call, Document, Inserted
  <1>2. docs' = [docs EXCEPT ![d] = Inserted(c)] /\ docs[d] = Absent
    BY DEF Insert, Inserted
  <1>3. docs'[d] = Inserted(c) /\ Inserted(c) # Absent
    BY <1>1, <1>2, DocumentPresent DEF TypeOK
  <1>4. \A e \in Docs : e # d => docs'[e] = docs[e]
    BY <1>2 DEF TypeOK
  <1>5. docs' \in [Docs -> Document \cup {Absent}]
    BY <1>1, <1>2 DEF TypeOK
  <1>6. d \notin Existing /\ Existing' = Existing \cup {d}
    BY <1>2, <1>3, <1>4 DEF Existing
  <1>7. Standing' = Standing \cup {d}
    BY <1>1, <1>3, <1>4, <1>6 DEF Standing, Existing
  <1>8. docs'[d].service = calls[c].service /\ docs'[d].source = calls[c].source
    BY <1>3 DEF Inserted
  <1>9. QED
    BY <1>3, <1>4, <1>5, <1>6, <1>7, <1>8 DEF Existing

\* Saving the plan ends the call, and outdates the others of the same order.
LEMMA SaveOutdates ==
    ASSUME TypeOK, NEW c \in Calls, InFlight(c, Planned), NEW request, SavePlan(c, request)
    PROVE  /\ calls' \in [Calls -> Call \cup {NoCall}]
           /\ calls'[c] = NoCall
           /\ \A k \in Calls :
                 calls'[k] # NoCall =>
                     /\ calls[k] # NoCall
                     /\ calls'[k].service = calls[k].service
                     /\ calls'[k].source = calls[k].source
                     /\ calls'[k].party = calls[k].party
                     /\ calls'[k].current => calls[k].current
                     /\ calls[k].service \in Planned /\ calls[k].source = calls[c].source
                           => ~calls'[k].current
  <1>1. ASSUME NEW k \in Calls
        PROVE  /\ calls'[k] \in Call \cup {NoCall}
               /\ k = c => calls'[k] = NoCall
               /\ calls'[k] # NoCall =>
                     /\ calls[k] # NoCall
                     /\ calls'[k].service = calls[k].service
                     /\ calls'[k].source = calls[k].source
                     /\ calls'[k].party = calls[k].party
                     /\ calls'[k].current => calls[k].current
                     /\ calls[k].service \in Planned /\ calls[k].source = calls[c].source
                           => ~calls'[k].current
    <2>1. CASE k = c
      <3>1. calls'[k] = NoCall
        BY <2>1 DEF SavePlan
      <3>2. QED
        BY <2>1, <3>1
    <2>2. CASE k # c /\ InFlight(k, Planned) /\ calls[k].source = calls[c].source
      <3>1. calls[k] \in Call
        BY <2>2, CallTyped DEF InFlight
      <3>2. calls'[k] = [calls[k] EXCEPT !.current = FALSE]
        BY <2>2 DEF SavePlan
      <3>3. calls'[k] \in Call
        BY <3>1, <3>2 DEF Call
      <3>4. /\ calls'[k].service = calls[k].service
            /\ calls'[k].source = calls[k].source
            /\ calls'[k].party = calls[k].party
            /\ ~calls'[k].current
        BY <3>1, <3>2 DEF Call
      <3>5. QED
        BY <2>2, <3>3, <3>4 DEF InFlight
    <2>3. CASE k # c /\ ~(InFlight(k, Planned) /\ calls[k].source = calls[c].source)
      <3>1. calls'[k] = calls[k] /\ calls[k] \in Call \cup {NoCall}
        BY <2>3 DEF SavePlan, TypeOK
      <3>2. QED
        BY <2>3, <3>1 DEF InFlight
    <2>4. QED
      BY <2>1, <2>2, <2>3
  <1>2. calls' = [k \in Calls |-> calls'[k]]
    BY DEF SavePlan
  <1>3. QED
    BY <1>1, <1>2

\* With an insert the source gets the new document, and no other source does.
LEMMA InsertStands ==
    ASSUME TypeOK, NEW c \in Calls, calls[c] # NoCall, NEW d \in Docs, Insert(c, d)
    PROVE  \A r \in Roots :
              StandingOf(r)' = IF r = calls[c].source THEN StandingOf(r) \cup {d}
                                                      ELSE StandingOf(r)
  <1>1. /\ Standing' = Standing \cup {d}
        /\ docs'[d].source = calls[c].source
        /\ \A e \in Standing : docs'[e].source = docs[e].source
    <2>1. /\ Standing' = Standing \cup {d}
          /\ docs'[d] = Inserted(c)
          /\ \A e \in Existing : docs'[e] = docs[e]
      BY InsertAdds
    <2>2. \A e \in Standing : docs'[e] = docs[e]
      BY <2>1 DEF Standing
    <2>3. QED
      BY <2>1, <2>2 DEF Inserted
  <1>2. TAKE r \in Roots
  <1>3. StandingOf(r)' = {e \in Standing' : docs'[e].source = r}
    BY DEF StandingOf
  <1>4. \A e : e \in StandingOf(r)' <=>
              e \in StandingOf(r) \/ (e = d /\ r = calls[c].source)
    <2>1. TAKE e
    <2>2. d \notin Standing
      BY InsertAdds DEF Standing
    <2>3. CASE e = d
      BY <1>1, <1>3, <2>2, <2>3 DEF StandingOf
    <2>4. CASE e # d
      BY <1>1, <1>3, <2>4 DEF StandingOf
    <2>5. QED
      BY <2>3, <2>4
  <1>5. QED
    BY <1>4

\* What an inserted document of a root, or a call for one, is made by.
LEMMA InsertMade ==
    ASSUME TypeOK, MadeByItsService,
           NEW c \in Calls, calls[c] # NoCall, NEW d \in Docs, Insert(c, d)
    PROVE  \A e \in Existing' :
              /\ docs'[e].source \in Roots =>
                    docs'[e].service = ServiceOf[docs'[e].source] /\ docs'[e].party = NoSupplier
              /\ docs'[e].service \notin Bare => docs'[e].source \in Roots
  <1>1. TAKE e \in Existing'
  <1>2. CASE e = d
    <2>1. /\ docs'[e].source = calls[c].source
          /\ docs'[e].service = calls[c].service
          /\ docs'[e].party = calls[c].party
      <3>1. docs'[e] = Inserted(c)
        BY <1>2, InsertAdds
      <3>2. QED
        BY <3>1 DEF Inserted
    <2>2. /\ calls[c].source \in Roots =>
                calls[c].service = ServiceOf[calls[c].source]
                    /\ calls[c].party = NoSupplier
          /\ calls[c].service \notin Bare => calls[c].source \in Roots
      BY DEF MadeByItsService
    <2>3. QED
      BY <2>1, <2>2
  <1>3. CASE e # d
    <2>1. e \in Existing /\ docs'[e] = docs[e]
      BY <1>3, InsertAdds
    <2>2. QED
      BY <2>1 DEF MadeByItsService
  <1>4. QED
    BY <1>2, <1>3

\* Ending a call leaves the others as they are.
LEMMA EndCallEffect ==
    ASSUME TypeOK, NEW c \in Calls, EndCall(c)
    PROVE  /\ calls' \in [Calls -> Call \cup {NoCall}]
           /\ \A k \in Calls : calls'[k] # NoCall => calls'[k] = calls[k]
  <1>1. \A k \in Calls : calls'[k] = IF k = c THEN NoCall ELSE calls[k]
    BY DEF EndCall, TypeOK
  <1>2. calls' \in [Calls -> Call \cup {NoCall}]
    BY DEF EndCall, TypeOK
  <1>3. QED
    BY <1>1, <1>2

-----------------------------------------------------------------------------
(* The steps, one by one.                                                  *)

\* A call that begins for a Sales Order has found no standing request.
LEMMA BeginStep ==
    ASSUME SourceInv, NEW c \in Calls, NEW service \in Services, NEW s \in Roots \cup Docs,
           NEW p \in Suppliers \cup {NoSupplier}, Begin(c, service, s, p)
    PROVE  SourceInv'
  <1> DEFINE new == [service |-> service, source |-> s, party |-> p, current |-> TRUE]
  <1>1. /\ s \in Roots => ServiceOf[s] = service /\ p = NoSupplier
        /\ s \notin Roots => service \in Bare
        /\ p \in Invited \cup {NoSupplier}
    BY DEF Begin, SourceFits
  <1>2. new \in Call
    BY <1>1 DEF Call
  <1>3. /\ calls' \in [Calls -> Call \cup {NoCall}]
        /\ calls'[c] = new
        /\ \A k \in Calls : k # c => calls'[k] = calls[k]
    BY <1>2 DEF Begin, SourceInv, TypeOK
  <1>4. /\ docs' = docs /\ ready' = ready /\ plans' = plans
        /\ Existing' = Existing /\ Standing' = Standing
    BY DEF Begin, Existing, Standing
  <1>5. TypeOK'
    BY <1>3, <1>4 DEF SourceInv, TypeOK
  <1>6. MadeByItsService'
    <2>1. \A k \in Calls :
            calls'[k] # NoCall =>
              /\ calls'[k].source \in Roots =>
                    calls'[k].service = ServiceOf[calls'[k].source]
                        /\ calls'[k].party = NoSupplier
              /\ calls'[k].service \notin Bare => calls'[k].source \in Roots
      BY <1>1, <1>3 DEF SourceInv, MadeByItsService
    <2>2. QED
      BY <1>4, <2>1 DEF SourceInv, MadeByItsService
  <1>7. CurrentCallsFoundNone'
    <2>1. SUFFICES ASSUME NEW k \in Calls,
                          calls'[k] # NoCall, calls'[k].service \in Planned, calls'[k].current
                   PROVE  StandingOf(calls'[k].source) = {}
      BY <1>4 DEF CurrentCallsFoundNone, InFlight, StandingOf
    <2>2. CASE k # c
      BY <1>3, <2>1, <2>2 DEF SourceInv, CurrentCallsFoundNone, InFlight
    <2>3. CASE k = c
      <3>1. service \in Planned /\ calls'[k].source = s
        BY <1>3, <2>1, <2>3
      <3>2. s \in Roots /\ service \notin Indexed
        BY <1>1, <3>1, KindsDisjoint
      <3>3. MadeOf(service, s, p) \cap Standing = {}
        BY <3>2 DEF Begin, Found
      <3>4. ASSUME NEW d \in StandingOf(s) PROVE FALSE
        <4>1. d \in Standing /\ d \in Existing /\ d \in Docs /\ docs[d].source = s
          BY <3>4 DEF StandingOf, Standing, Existing
        <4>2. docs[d].service = service /\ docs[d].party = p
          BY <1>1, <3>2, <4>1 DEF SourceInv, MadeByItsService
        <4>3. QED
          BY <3>3, <4>1, <4>2 DEF MadeOf
      <3>5. QED
        BY <3>1, <3>4
    <2>4. QED
      BY <2>2, <2>3
  <1>8. OnePerRoot' /\ PlanNamesRequest'
    BY <1>4 DEF SourceInv, OnePerRoot, PlanNamesRequest, StandingOf
  <1>9. QED
    BY <1>5, <1>6, <1>7, <1>8 DEF SourceInv

\* A call that gives up changes nothing.
LEMMA AbandonStep ==
    ASSUME SourceInv, NEW c \in Calls, Abandon(c)
    PROVE  SourceInv'
  <1>1. /\ docs' = docs /\ ready' = ready /\ plans' = plans
        /\ Existing' = Existing /\ Standing' = Standing
    BY DEF Abandon, Existing, Standing
  <1>2. /\ calls' \in [Calls -> Call \cup {NoCall}]
        /\ \A k \in Calls : calls'[k] # NoCall => calls'[k] = calls[k]
    BY EndCallEffect DEF SourceInv, Abandon, EndCall
  <1>3. TypeOK'
    BY <1>1, <1>2 DEF SourceInv, TypeOK
  <1>4. MadeByItsService'
    BY <1>1, <1>2 DEF SourceInv, MadeByItsService
  <1>5. CurrentCallsFoundNone'
    BY <1>1, <1>2 DEF SourceInv, CurrentCallsFoundNone, InFlight, StandingOf
  <1>6. OnePerRoot' /\ PlanNamesRequest'
    BY <1>1 DEF SourceInv, OnePerRoot, PlanNamesRequest, StandingOf
  <1>7. QED
    BY <1>3, <1>4, <1>5, <1>6 DEF SourceInv

\* A document of procurement has no root as its source.
LEMMA InsertBareStep ==
    ASSUME SourceInv, NEW c \in Calls, NEW d \in Docs, InsertBare(c, d)
    PROVE  SourceInv'
  <1>1. /\ calls[c] # NoCall /\ calls[c].service \in Bare
        /\ Insert(c, d) /\ EndCall(c)
        /\ ready' = ready /\ plans' = plans
    BY DEF InsertBare, InFlight
  <1>2. calls[c].source \notin Roots
    <2>1. ASSUME calls[c].source \in Roots PROVE FALSE
      <3>1. calls[c].service \in Indexed \cup Planned
        BY <1>1, <2>1, SourceAssumption DEF SourceInv, MadeByItsService
      <3>2. QED
        BY <1>1, <3>1, KindsDisjoint
    <2>2. QED
      BY <2>1
  <1>3. \A r \in Roots : StandingOf(r)' = StandingOf(r)
    BY <1>1, <1>2, InsertStands DEF SourceInv
  <1>4. /\ calls' \in [Calls -> Call \cup {NoCall}]
        /\ \A k \in Calls : calls'[k] # NoCall => calls'[k] = calls[k]
    BY <1>1, EndCallEffect DEF SourceInv
  <1>5. TypeOK'
    BY <1>1, <1>4, InsertAdds DEF SourceInv, TypeOK
  <1>6. MadeByItsService'
    BY <1>1, <1>4, InsertMade DEF SourceInv, MadeByItsService
  <1>7. CurrentCallsFoundNone'
    <2>1. SUFFICES ASSUME NEW k \in Calls,
                          calls'[k] # NoCall, calls'[k].service \in Planned, calls'[k].current
                   PROVE  {e \in Standing' : docs'[e].source = calls'[k].source} = {}
      BY DEF CurrentCallsFoundNone, InFlight, StandingOf
    <2>2. calls'[k] = calls[k] /\ StandingOf(calls[k].source) = {}
      BY <1>4, <2>1 DEF SourceInv, CurrentCallsFoundNone, InFlight
    <2>3. PICK r \in Roots : r = calls[k].source
      BY <2>1, <2>2, KindsDisjoint DEF SourceInv, MadeByItsService
    <2>4. StandingOf(r)' = {}
      BY <1>3, <2>2, <2>3
    <2>5. QED
      BY <2>2, <2>3, <2>4 DEF StandingOf
  <1>8. OnePerRoot'
    BY <1>3 DEF SourceInv, OnePerRoot
  <1>9. PlanNamesRequest'
    <2>1. SUFFICES ASSUME NEW e \in Standing', docs'[e].service \in Planned
                   PROVE  plans'[docs'[e].source] = e
      BY DEF PlanNamesRequest
    <2>2. docs'[d].service = calls[c].service
      BY <1>1, InsertAdds DEF SourceInv
    <2>3. e \in Standing /\ e \in Existing
      BY <1>1, <2>1, <2>2, InsertAdds, KindsDisjoint DEF SourceInv, Standing
    <2>4. docs'[e] = docs[e]
      BY <1>1, <2>3, InsertAdds DEF SourceInv
    <2>5. QED
      BY <1>1, <2>1, <2>3, <2>4 DEF SourceInv, PlanNamesRequest
  <1>10. QED
    BY <1>5, <1>6, <1>7, <1>8, <1>9 DEF SourceInv

\* The index admits the first document of its source only.
LEMMA IndexedIsFirst ==
    ASSUME SourceInv, NEW c \in Calls, NEW d \in Docs, InsertIndexed(c, d)
    PROVE  /\ calls[c].source \in Roots
           /\ StandingOf(calls[c].source) = {}
           /\ \A k \in Calls :
                 InFlight(k, Planned) => calls[k].source # calls[c].source
  <1>1. /\ calls[c] # NoCall /\ calls[c].service \in Indexed
        /\ MadeOf(calls[c].service, calls[c].source, calls[c].party) = {}
    BY DEF InsertIndexed, InFlight
  <1>2. /\ calls[c].source \in Roots
        /\ calls[c].service = ServiceOf[calls[c].source]
        /\ calls[c].party = NoSupplier
    BY <1>1, KindsDisjoint DEF SourceInv, MadeByItsService
  <1>3. ASSUME NEW e \in StandingOf(calls[c].source) PROVE FALSE
    <2>1. e \in Existing /\ docs[e].source = calls[c].source
      BY <1>3 DEF StandingOf, Standing
    <2>2. docs[e].service = calls[c].service /\ docs[e].party = calls[c].party
      BY <1>2, <2>1 DEF SourceInv, MadeByItsService
    <2>3. QED
      BY <1>1, <2>1, <2>2 DEF MadeOf
  <1>4. ASSUME NEW k \in Calls, InFlight(k, Planned), calls[k].source = calls[c].source
        PROVE  FALSE
    <2>1. calls[k].service = ServiceOf[calls[c].source]
      BY <1>2, <1>4 DEF SourceInv, MadeByItsService, InFlight
    <2>2. QED
      BY <1>1, <1>2, <1>4, <2>1, KindsDisjoint DEF InFlight
  <1>5. QED
    BY <1>2, <1>3, <1>4

\* So the insert of a project or of a receipt keeps the invariant.
LEMMA InsertIndexedStep ==
    ASSUME SourceInv, NEW c \in Calls, NEW d \in Docs, InsertIndexed(c, d)
    PROVE  SourceInv'
  <1>1. /\ calls[c] # NoCall /\ calls[c].service \in Indexed
        /\ Insert(c, d) /\ EndCall(c)
        /\ ready' = ready /\ plans' = plans
    BY DEF InsertIndexed, InFlight
  <1>3. \A r \in Roots :
           StandingOf(r)' = IF r = calls[c].source THEN {d} ELSE StandingOf(r)
    BY <1>1, InsertStands, IndexedIsFirst DEF SourceInv
  <1>4. /\ calls' \in [Calls -> Call \cup {NoCall}]
        /\ \A k \in Calls : calls'[k] # NoCall => calls'[k] = calls[k]
    BY <1>1, EndCallEffect DEF SourceInv
  <1>5. TypeOK'
    BY <1>1, <1>4, InsertAdds DEF SourceInv, TypeOK
  <1>6. MadeByItsService'
    BY <1>1, <1>4, InsertMade DEF SourceInv, MadeByItsService
  <1>7. CurrentCallsFoundNone'
    <2>1. SUFFICES ASSUME NEW k \in Calls,
                          calls'[k] # NoCall, calls'[k].service \in Planned, calls'[k].current
                   PROVE  {e \in Standing' : docs'[e].source = calls'[k].source} = {}
      BY DEF CurrentCallsFoundNone, InFlight, StandingOf
    <2>2. calls'[k] = calls[k] /\ StandingOf(calls[k].source) = {}
      BY <1>4, <2>1 DEF SourceInv, CurrentCallsFoundNone, InFlight
    <2>3. PICK r \in Roots : r = calls[k].source
      BY <2>1, <2>2, KindsDisjoint DEF SourceInv, MadeByItsService
    <2>4. r # calls[c].source
      BY <2>1, <2>2, <2>3, IndexedIsFirst DEF InFlight
    <2>5. StandingOf(r)' = {}
      BY <1>3, <2>2, <2>3, <2>4
    <2>6. QED
      BY <2>2, <2>3, <2>5 DEF StandingOf
  <1>8. OnePerRoot'
    <2>1. SUFFICES ASSUME NEW r \in Roots PROVE \A e, f \in StandingOf(r)' : e = f
      BY DEF OnePerRoot
    <2>2. QED
      BY <1>3 DEF SourceInv, OnePerRoot
  <1>9. PlanNamesRequest'
    <2>1. SUFFICES ASSUME NEW e \in Standing', docs'[e].service \in Planned
                   PROVE  plans'[docs'[e].source] = e
      BY DEF PlanNamesRequest
    <2>2. docs'[d].service = calls[c].service
      BY <1>1, InsertAdds DEF SourceInv
    <2>3. e \in Standing /\ e \in Existing
      BY <1>1, <2>1, <2>2, InsertAdds, KindsDisjoint DEF SourceInv, Standing
    <2>4. docs'[e] = docs[e]
      BY <1>1, <2>3, InsertAdds DEF SourceInv
    <2>5. QED
      BY <1>1, <2>1, <2>3, <2>4 DEF SourceInv, PlanNamesRequest
  <1>10. QED
    BY <1>5, <1>6, <1>7, <1>8, <1>9 DEF SourceInv

\* A call that may still save the plan is the first one to make a request.
LEMMA PlannedIsFirst ==
    ASSUME SourceInv, NEW c \in Calls, InFlight(c, Planned), calls[c].current
    PROVE  /\ calls[c].source \in Roots
           /\ StandingOf(calls[c].source) = {}
  BY KindsDisjoint DEF SourceInv, MadeByItsService, CurrentCallsFoundNone, InFlight

\* A saved plan leaves no current call for its order, and no other call changes.
LEMMA SaveStep ==
    ASSUME SourceInv, NEW c \in Calls, InFlight(c, Planned), NEW request, SavePlan(c, request)
    PROVE  /\ \A k \in Calls :
                 calls'[k] # NoCall =>
                     /\ calls'[k].source \in Roots =>
                           calls'[k].service = ServiceOf[calls'[k].source]
                               /\ calls'[k].party = NoSupplier
                     /\ calls'[k].service \notin Bare => calls'[k].source \in Roots
           /\ \A k \in Calls :
                 calls'[k] # NoCall /\ calls'[k].service \in Planned /\ calls'[k].current =>
                     \E r \in Roots : /\ r = calls'[k].source
                                      /\ r # calls[c].source
                                      /\ StandingOf(r) = {}
  <1>1. \A k \in Calls :
           calls'[k] # NoCall =>
               /\ calls[k] # NoCall
               /\ calls'[k].service = calls[k].service
               /\ calls'[k].source = calls[k].source
               /\ calls'[k].party = calls[k].party
               /\ calls'[k].current => calls[k].current
               /\ calls[k].service \in Planned /\ calls[k].source = calls[c].source
                     => ~calls'[k].current
    BY SaveOutdates DEF SourceInv
  <1>2. \A k \in Calls :
           calls'[k] # NoCall =>
               /\ calls'[k].source \in Roots =>
                     calls'[k].service = ServiceOf[calls'[k].source]
                         /\ calls'[k].party = NoSupplier
               /\ calls'[k].service \notin Bare => calls'[k].source \in Roots
    BY <1>1 DEF SourceInv, MadeByItsService
  <1>3. ASSUME NEW k \in Calls,
               calls'[k] # NoCall, calls'[k].service \in Planned, calls'[k].current
        PROVE  \E r \in Roots : /\ r = calls'[k].source
                                /\ r # calls[c].source
                                /\ StandingOf(r) = {}
    <2>1. InFlight(k, Planned) /\ calls[k].current /\ calls[k].source # calls[c].source
      BY <1>1, <1>3 DEF InFlight
    <2>2. calls[k].source \in Roots /\ StandingOf(calls[k].source) = {}
      BY <2>1, PlannedIsFirst
    <2>3. QED
      BY <1>1, <1>3, <2>1, <2>2
  <1>4. QED
    BY <1>2, <1>3

\* The insert of a Material Request, with both saves of the plan.
LEMMA InsertPlannedStep ==
    ASSUME SourceInv, NEW c \in Calls, NEW d \in Docs, InsertPlanned(c, d)
    PROVE  SourceInv'
  <1>1. /\ calls[c] # NoCall /\ calls[c].service \in Planned /\ InFlight(c, Planned)
        /\ calls[c].current
        /\ Insert(c, d) /\ SavePlan(c, d)
        /\ ready' = ready
    BY DEF InsertPlanned, InFlight, SavePlan
  <1>2. calls[c].source \in Roots /\ StandingOf(calls[c].source) = {}
    BY <1>1, PlannedIsFirst
  <1>3. \A r \in Roots :
           StandingOf(r)' = IF r = calls[c].source THEN {d} ELSE StandingOf(r)
    BY <1>1, <1>2, InsertStands DEF SourceInv
  <1>4. plans' \in [Roots -> Docs \cup {NoDoc, NoPlan}]
        /\ \A r \in Roots : plans'[r] = IF r = calls[c].source THEN d ELSE plans[r]
    BY <1>1, <1>2 DEF SavePlan, SourceInv, TypeOK
  <1>5. TypeOK'
    BY <1>1, <1>4, InsertAdds, SaveOutdates DEF SourceInv, TypeOK
  <1>6. MadeByItsService'
    BY <1>1, InsertMade, SaveStep DEF SourceInv, MadeByItsService
  <1>7. CurrentCallsFoundNone'
    <2>1. SUFFICES ASSUME NEW k \in Calls,
                          calls'[k] # NoCall, calls'[k].service \in Planned, calls'[k].current
                   PROVE  {e \in Standing' : docs'[e].source = calls'[k].source} = {}
      BY DEF CurrentCallsFoundNone, InFlight, StandingOf
    <2>2. PICK r \in Roots : /\ r = calls'[k].source
                             /\ r # calls[c].source
                             /\ StandingOf(r) = {}
      BY <1>1, <2>1, SaveStep
    <2>3. StandingOf(r)' = {}
      BY <1>3, <2>2
    <2>4. QED
      BY <2>2, <2>3 DEF StandingOf
  <1>8. OnePerRoot'
    <2>1. SUFFICES ASSUME NEW r \in Roots PROVE \A e, f \in StandingOf(r)' : e = f
      BY DEF OnePerRoot
    <2>2. QED
      BY <1>3 DEF SourceInv, OnePerRoot
  <1>9. PlanNamesRequest'
    <2>1. SUFFICES ASSUME NEW e \in Standing', docs'[e].service \in Planned
                   PROVE  plans'[docs'[e].source] = e
      BY DEF PlanNamesRequest
    <2>2. CASE e = d
      <3>1. docs'[e].source = calls[c].source
        BY <1>1, <2>2, InsertAdds DEF SourceInv
      <3>2. QED
        BY <1>2, <1>4, <2>2, <3>1
    <2>3. CASE e # d
      <3>1. e \in Standing /\ e \in Existing
        BY <1>1, <2>1, <2>3, InsertAdds DEF SourceInv, Standing
      <3>2. docs'[e] = docs[e]
        BY <1>1, <3>1, InsertAdds DEF SourceInv
      <3>3. docs[e].source \in Roots /\ plans[docs[e].source] = e
        BY <2>1, <3>1, <3>2, KindsDisjoint DEF SourceInv, PlanNamesRequest, MadeByItsService
      <3>4. docs[e].source # calls[c].source
        BY <1>2, <3>1 DEF StandingOf
      <3>5. QED
        BY <1>4, <3>2, <3>3, <3>4
    <2>4. QED
      BY <2>2, <2>3
  <1>10. QED
    BY <1>5, <1>6, <1>7, <1>8, <1>9 DEF SourceInv

\* A plan that loses its request: none stands.
LEMMA PlanWithoutShortageStep ==
    ASSUME SourceInv, NEW c \in Calls, PlanWithoutShortage(c)
    PROVE  SourceInv'
  <1>1. /\ calls[c] # NoCall /\ calls[c].service \in Planned /\ InFlight(c, Planned)
        /\ calls[c].current
        /\ SavePlan(c, NoDoc)
        /\ docs' = docs /\ ready' = ready
        /\ Existing' = Existing /\ Standing' = Standing
    BY DEF PlanWithoutShortage, InFlight, SavePlan, Existing, Standing
  <1>2. calls[c].source \in Roots /\ StandingOf(calls[c].source) = {}
    BY <1>1, PlannedIsFirst
  <1>3. plans' \in [Roots -> Docs \cup {NoDoc, NoPlan}]
        /\ \A r \in Roots : plans'[r] = IF r = calls[c].source THEN NoDoc ELSE plans[r]
    BY <1>1, <1>2 DEF SavePlan, SourceInv, TypeOK
  <1>4. TypeOK'
    BY <1>1, <1>3, SaveOutdates DEF SourceInv, TypeOK
  <1>5. MadeByItsService'
    BY <1>1, SaveStep DEF SourceInv, MadeByItsService
  <1>6. CurrentCallsFoundNone'
    BY <1>1, SaveStep DEF CurrentCallsFoundNone, InFlight, StandingOf
  <1>7. OnePerRoot'
    BY <1>1 DEF SourceInv, OnePerRoot, StandingOf
  <1>8. PlanNamesRequest'
    <2>1. SUFFICES ASSUME NEW e \in Standing, docs[e].service \in Planned
                   PROVE  plans'[docs[e].source] = e
      BY <1>1 DEF PlanNamesRequest
    <2>2. docs[e].source \in Roots /\ plans[docs[e].source] = e
      BY <2>1, KindsDisjoint DEF SourceInv, PlanNamesRequest, MadeByItsService, Standing
    <2>3. docs[e].source # calls[c].source
      BY <1>2, <2>1 DEF StandingOf
    <2>4. QED
      BY <1>3, <2>2, <2>3
  <1>9. QED
    BY <1>4, <1>5, <1>6, <1>7, <1>8 DEF SourceInv

\* Readiness of a root is not part of what must hold.
LEMMA RootMovesStep ==
    ASSUME SourceInv, NEW r \in Roots, RootMoves(r)
    PROVE  SourceInv'
  <1>1. /\ docs' = docs /\ plans' = plans /\ calls' = calls
        /\ Existing' = Existing /\ Standing' = Standing
        /\ ready' \subseteq Roots
    BY DEF RootMoves, Existing, Standing, SourceInv, TypeOK
  <1>2. TypeOK' /\ MadeByItsService'
    BY <1>1 DEF SourceInv, TypeOK, MadeByItsService
  <1>3. CurrentCallsFoundNone' /\ OnePerRoot' /\ PlanNamesRequest'
    BY <1>1 DEF SourceInv, CurrentCallsFoundNone, OnePerRoot, PlanNamesRequest,
                InFlight, StandingOf
  <1>4. QED
    BY <1>2, <1>3 DEF SourceInv

\* A document that changes its status stays what it is.
LEMMA StatusChange ==
    ASSUME TypeOK, NEW d \in Existing, NEW st \in {"Submitted", "Cancelled"},
           docs' = [docs EXCEPT ![d].docstatus = st]
    PROVE  /\ docs' \in [Docs -> Document \cup {Absent}]
           /\ Existing' = Existing
           /\ docs'[d].docstatus = st
           /\ \A e \in Existing :
                 /\ docs'[e].service = docs[e].service
                 /\ docs'[e].source = docs[e].source
                 /\ docs'[e].party = docs[e].party
                 /\ e # d => docs'[e].docstatus = docs[e].docstatus
  <1>1. d \in Docs /\ docs[d] \in Document
    BY DocTyped
  <1>2. docs'[d] = [docs[d] EXCEPT !.docstatus = st]
    BY <1>1 DEF TypeOK
  <1>3. /\ docs'[d] \in Document
        /\ docs'[d].docstatus = st
        /\ docs'[d].service = docs[d].service
        /\ docs'[d].source = docs[d].source
        /\ docs'[d].party = docs[d].party
    BY <1>1, <1>2 DEF Document
  <1>4. \A e \in Docs : e # d => docs'[e] = docs[e]
    BY DEF TypeOK
  <1>5. docs' = [docs EXCEPT ![d] = docs'[d]]
    BY <1>1, <1>2 DEF TypeOK
  <1>6. docs' \in [Docs -> Document \cup {Absent}]
    BY <1>3, <1>5 DEF TypeOK
  <1>7. Existing' = Existing
    BY <1>1, <1>3, <1>4, DocumentPresent DEF Existing
  <1>8. QED
    BY <1>3, <1>4, <1>6, <1>7 DEF Existing

\* What stands for the roots after the submission of a draft.
LEMMA SubmitStands ==
    ASSUME TypeOK, NEW d \in Docs, SubmitDoc(d)
    PROVE  Standing' = Standing /\ \A r \in Roots : StandingOf(r)' = StandingOf(r)
  <1>1. /\ d \in Existing /\ docs[d].docstatus = "Draft"
        /\ docs' = [docs EXCEPT ![d].docstatus = "Submitted"]
    BY DEF SubmitDoc
  <1>2. /\ Existing' = Existing
        /\ docs'[d].docstatus = "Submitted"
        /\ \A e \in Existing : /\ docs'[e].source = docs[e].source
                               /\ e # d => docs'[e].docstatus = docs[e].docstatus
    BY <1>1, StatusChange
  <1>3. Standing' = Standing
    BY <1>1, <1>2 DEF Standing
  <1>4. QED
    BY <1>2, <1>3 DEF StandingOf, Standing

\* What stands for the roots after a cancellation.
LEMMA CancelStands ==
    ASSUME TypeOK, NEW d \in Docs, CancelDoc(d)
    PROVE  /\ d \in Standing
           /\ Standing' = Standing \ {d}
           /\ \A r \in Roots : StandingOf(r)' = StandingOf(r) \ {d}
  <1>1. /\ d \in Existing /\ docs[d].docstatus = "Submitted"
        /\ docs' = [docs EXCEPT ![d].docstatus = "Cancelled"]
    BY DEF CancelDoc, Submitted
  <1>2. /\ Existing' = Existing
        /\ docs'[d].docstatus = "Cancelled"
        /\ \A e \in Existing : /\ docs'[e].source = docs[e].source
                               /\ e # d => docs'[e].docstatus = docs[e].docstatus
    BY <1>1, StatusChange
  <1>3. d \in Standing /\ Standing' = Standing \ {d}
    BY <1>1, <1>2 DEF Standing
  <1>4. QED
    BY <1>2, <1>3 DEF StandingOf, Standing

\* The life of the documents keeps the invariant.
LEMMA LifeStep ==
    ASSUME SourceInv, NEW d \in Docs, SubmitDoc(d) \/ CancelDoc(d)
    PROVE  SourceInv'
  <1>1. /\ d \in Existing
        /\ \E st \in {"Submitted", "Cancelled"} : docs' = [docs EXCEPT ![d].docstatus = st]
        /\ ready' = ready /\ plans' = plans /\ calls' = calls
    BY DEF SubmitDoc, CancelDoc, Submitted
  <1>2. /\ docs' \in [Docs -> Document \cup {Absent}]
        /\ Existing' = Existing
        /\ \A e \in Existing : /\ docs'[e].service = docs[e].service
                               /\ docs'[e].source = docs[e].source
                               /\ docs'[e].party = docs[e].party
    BY <1>1, StatusChange DEF SourceInv
  <1>3. Standing' \subseteq Standing /\ \A r \in Roots : StandingOf(r)' \subseteq StandingOf(r)
    BY SubmitStands, CancelStands DEF SourceInv
  <1>4. TypeOK'
    BY <1>1, <1>2 DEF SourceInv, TypeOK
  <1>5. MadeByItsService'
    BY <1>1, <1>2 DEF SourceInv, MadeByItsService
  <1>6. CurrentCallsFoundNone'
    <2>1. SUFFICES ASSUME NEW k \in Calls, InFlight(k, Planned), calls[k].current
                   PROVE  {e \in Standing' : docs'[e].source = calls[k].source} = {}
      BY <1>1 DEF CurrentCallsFoundNone, InFlight, StandingOf
    <2>2. PICK r \in Roots : r = calls[k].source /\ StandingOf(r) = {}
      BY <2>1, PlannedIsFirst
    <2>3. StandingOf(r)' = {}
      BY <1>3, <2>2
    <2>4. QED
      BY <2>2, <2>3 DEF StandingOf
  <1>7. OnePerRoot'
    <2>1. SUFFICES ASSUME NEW r \in Roots PROVE \A e, f \in StandingOf(r)' : e = f
      BY DEF OnePerRoot
    <2>2. QED
      BY <1>3 DEF SourceInv, OnePerRoot
  <1>8. PlanNamesRequest'
    BY <1>1, <1>2, <1>3 DEF SourceInv, PlanNamesRequest, Standing
  <1>9. QED
    BY <1>4, <1>5, <1>6, <1>7, <1>8 DEF SourceInv

-----------------------------------------------------------------------------
(* The theorems.                                                           *)

\* The invariant holds when nothing has been made.
LEMMA SourceInit == Init => SourceInv
  <1>1. SUFFICES ASSUME Init PROVE SourceInv
    OBVIOUS
  <1>2. Existing = {} /\ Standing = {}
    BY <1>1 DEF Init, Existing, Standing
  <1>3. TypeOK
    BY <1>1 DEF Init, TypeOK
  <1>4. \A c \in Calls : calls[c] = NoCall
    BY <1>1 DEF Init
  <1>5. QED
    BY <1>2, <1>3, <1>4 DEF SourceInv, MadeByItsService, CurrentCallsFoundNone, OnePerRoot,
       PlanNamesRequest, InFlight, StandingOf

\* Every step keeps it.
LEMMA SourceStep == SourceInv /\ [Next]_vars => SourceInv'
  <1>1. SUFFICES ASSUME SourceInv, [Next]_vars PROVE SourceInv'
    OBVIOUS
  <1>2. CASE \E c \in Calls, service \in Services, s \in Roots \cup Docs,
                p \in Suppliers \cup {NoSupplier} : Begin(c, service, s, p)
    BY <1>1, <1>2, BeginStep
  <1>3. CASE \E c \in Calls : Abandon(c) \/ PlanWithoutShortage(c)
    BY <1>1, <1>3, AbandonStep, PlanWithoutShortageStep
  <1>4. CASE \E c \in Calls, d \in Docs :
                InsertBare(c, d) \/ InsertIndexed(c, d) \/ InsertPlanned(c, d)
    BY <1>1, <1>4, InsertBareStep, InsertIndexedStep, InsertPlannedStep
  <1>5. CASE \E r \in Roots : RootMoves(r)
    BY <1>1, <1>5, RootMovesStep
  <1>6. CASE \E d \in Docs : SubmitDoc(d) \/ CancelDoc(d)
    BY <1>1, <1>6, LifeStep
  <1>7. CASE UNCHANGED vars
    BY <1>1, <1>7 DEF vars, SourceInv, TypeOK, MadeByItsService, CurrentCallsFoundNone,
       OnePerRoot, PlanNamesRequest, StandingOf, Standing, Existing, InFlight
  <1>8. QED
    BY <1>1, <1>2, <1>3, <1>4, <1>5, <1>6, <1>7 DEF Next

\* The inductive invariant of the services, in every behaviour.
THEOREM SourceInvariant == Spec => []SourceInv
  <1>1. QED
    BY SourceInit, SourceStep, PTL DEF Spec

\* The states are well typed, whatever services, documents and calls there are.
\* (procurement.py, deal_conversion.py, delivery.py, material_planning.py)
THEOREM SourceTypes == Spec => []TypeOK
  <1>1. SourceInv => TypeOK
    BY DEF SourceInv
  <1>2. QED
    BY <1>1, SourceInvariant, PTL

\* The plan of an order names its standing request, in every behaviour.
\* (material_planning.py 187-215, 249-295)
THEOREM PlanSound == Spec => []PlanNamesRequest
  <1>1. SourceInv => PlanNamesRequest
    BY DEF SourceInv
  <1>2. QED
    BY <1>1, SourceInvariant, PTL

\* The standing documents of every root, as CreateOnce sees them.
StandingMap == [r \in Roots |-> {d \in Standing : docs[d].source = r}]

\* A step that leaves what stands for the roots alone is a stutter.
LEMMA SameStanding ==
    ASSUME \A r \in Roots : StandingOf(r)' = StandingOf(r)
    PROVE  StandingMap' = StandingMap
  BY DEF StandingMap, StandingOf

\* The first insert for a root is a Create.
LEMMA InsertCreates ==
    ASSUME SourceInv, NEW c \in Calls, NEW d \in Docs,
           calls[c] # NoCall, Insert(c, d),
           calls[c].source \in Roots, StandingOf(calls[c].source) = {}
    PROVE  \E r \in Roots : Once!Create(r, d)
  <1>1. PICK r \in Roots : r = calls[c].source
    OBVIOUS
  <1>2. \A q \in Roots : StandingOf(q)' = IF q = r THEN {d} ELSE StandingOf(q)
    BY <1>1, InsertStands DEF SourceInv
  <1>3. StandingMap[r] = {}
    BY <1>1 DEF StandingMap, StandingOf
  <1>4. StandingMap' = [StandingMap EXCEPT ![r] = {d}]
    BY <1>2 DEF StandingMap, StandingOf
  <1>5. QED
    BY <1>3, <1>4 DEF Once!Create, StandingMap

\* The cancellation of what stands for a root is an End, any other a stutter.
LEMMA CancelEnds ==
    ASSUME SourceInv, NEW d \in Docs, CancelDoc(d)
    PROVE  (\E r \in Roots : Once!End(r)) \/ StandingMap' = StandingMap
  <1>1. /\ d \in Standing
        /\ \A r \in Roots : StandingOf(r)' = StandingOf(r) \ {d}
    BY CancelStands DEF SourceInv
  <1>2. CASE docs[d].source \in Roots
    <2>1. PICK r \in Roots : r = docs[d].source
      BY <1>2
    <2>2. StandingOf(r) = {d}
      BY <1>1, <2>1 DEF SourceInv, OnePerRoot, StandingOf
    <2>3. \A q \in Roots : q # r => d \notin StandingOf(q)
      BY <2>1 DEF StandingOf
    <2>4. \A q \in Roots : StandingOf(q)' = IF q = r THEN {} ELSE StandingOf(q)
      BY <1>1, <2>2, <2>3
    <2>5. StandingMap[r] # {} /\ StandingMap' = [StandingMap EXCEPT ![r] = {}]
      BY <2>2, <2>4 DEF StandingMap, StandingOf
    <2>6. QED
      BY <2>5 DEF Once!End, StandingMap
  <1>3. CASE docs[d].source \notin Roots
    <2>1. \A q \in Roots : d \notin StandingOf(q)
      BY <1>3 DEF StandingOf
    <2>2. QED
      BY <1>1, <2>1, SameStanding
  <1>4. QED
    BY <1>2, <1>3

\* Every step of the services is a step of CreateOnce or a stutter.
LEMMA OnceStep ==
    ASSUME SourceInv, [Next]_vars
    PROVE  [Once!OnceNext]_StandingMap
  <1>1. CASE UNCHANGED docs
    <2>1. \A r \in Roots : StandingOf(r)' = StandingOf(r)
      BY <1>1 DEF StandingOf, Standing, Existing
    <2>2. QED
      BY <2>1, SameStanding
  <1>2. CASE \E c \in Calls, d \in Docs : InsertBare(c, d)
    <2>1. PICK c \in Calls, d \in Docs : InsertBare(c, d)
      BY <1>2
    <2>2. calls[c] # NoCall /\ calls[c].service \in Bare /\ Insert(c, d)
      BY <2>1 DEF InsertBare, InFlight
    <2>3. calls[c].source \notin Roots
      <3>1. ASSUME calls[c].source \in Roots PROVE FALSE
        <4>1. calls[c].service \in Indexed \cup Planned
          BY <2>2, <3>1, SourceAssumption DEF SourceInv, MadeByItsService
        <4>2. QED
          BY <2>2, <4>1, KindsDisjoint
      <3>2. QED
        BY <3>1
    <2>4. \A r \in Roots : StandingOf(r)' = StandingOf(r)
      BY <2>2, <2>3, InsertStands DEF SourceInv
    <2>5. QED
      BY <2>4, SameStanding
  <1>3. CASE \E c \in Calls, d \in Docs : InsertIndexed(c, d)
    <2>1. PICK c \in Calls, d \in Docs : InsertIndexed(c, d)
      BY <1>3
    <2>2. calls[c] # NoCall /\ Insert(c, d)
      BY <2>1 DEF InsertIndexed, InFlight
    <2>3. QED
      BY <2>1, <2>2, IndexedIsFirst, InsertCreates DEF Once!OnceNext
  <1>4. CASE \E c \in Calls, d \in Docs : InsertPlanned(c, d)
    <2>1. PICK c \in Calls, d \in Docs : InsertPlanned(c, d)
      BY <1>4
    <2>2. calls[c] # NoCall /\ Insert(c, d) /\ InFlight(c, Planned) /\ calls[c].current
      BY <2>1 DEF InsertPlanned, InFlight, SavePlan
    <2>3. QED
      BY <2>2, PlannedIsFirst, InsertCreates DEF Once!OnceNext
  <1>5. CASE \E d \in Docs : SubmitDoc(d)
    BY <1>5, SubmitStands, SameStanding DEF SourceInv
  <1>6. CASE \E d \in Docs : CancelDoc(d)
    BY <1>6, CancelEnds DEF Once!OnceNext
  <1>7. QED
    BY <1>1, <1>2, <1>3, <1>4, <1>5, <1>6
       DEF Next, vars, Begin, Abandon, PlanWithoutShortage, RootMoves

\* Repeated requests of the protected services, in whatever order their calls
\* meet, create once.  (deal_conversion.py 50-129, delivery.py 148-188,
\* material_planning.py 235-295)
THEOREM SourceCreatesOnce == Spec => CreatesOnce
  <1>1. Init => Once!OnceInit
    <2>1. SUFFICES ASSUME Init PROVE StandingMap = [r \in Roots |-> {}]
      BY DEF Once!OnceInit, StandingMap
    <2>2. Standing = {}
      BY <2>1 DEF Init, Standing, Existing
    <2>3. QED
      BY <2>2 DEF StandingMap
  <1>2. SourceInv /\ [Next]_vars => [Once!OnceNext]_StandingMap
    BY OnceStep
  <1>3. QED
    BY <1>1, <1>2, SourceInvariant, PTL DEF Spec, CreatesOnce, Once!OnceSpec, StandingMap

-----------------------------------------------------------------------------
(* The updates of arrival dates.                                           *)

\* An update that could finish has read the present date.
UpdatesCurrent ==
    \A u \in Updates :
        updates[u] # NoUpdate /\ updates[u].current =>
            updates[u].custom_supplier_eta = eta[updates[u].order]

\* What is not there has no history.
AbsentUntouched == \A d \in Docs : docs[d] = Absent => history[d] = <<>>

\* Updates are of orders that are there.
UpdatesOfOrders == \A u \in Updates : updates[u] # NoUpdate => docs[updates[u].order] # Absent

EtaVarsTyped ==
    /\ eta \in [Docs -> Etas \cup {NoEta}]
    /\ promised \in [Docs -> Etas \cup {NoEta}]
    /\ history \in [Docs -> Seq(EtaChange)]
    /\ updates \in [Updates -> Update \cup {NoUpdate}]

EtaInv == EtaVarsTyped /\ UpdatesCurrent /\ AbsentUntouched /\ UpdatesOfOrders

\* A step of the extended system is one of the services, or leaves them alone.
LEMMA EtaStepProjects == [EtaNext]_etaVars => [Next]_vars
  BY DEF EtaNext, etaVars, vars, SourceMoves, BeginUpdate, FinishUpdate, AbandonUpdate

\* The services go on as before.
THEOREM EtaRefinesSource == EtaSpec => Spec
  <1>1. EtaInit => Init
    BY DEF EtaInit
  <1>2. QED
    BY <1>1, EtaStepProjects, PTL DEF EtaSpec, Spec

\* The plan of an order names its standing request, with updates of dates as well.
\* (material_planning.py 187-215, 249-295)
THEOREM EtaPlanSound == EtaSpec => []PlanNamesRequest
  BY EtaRefinesSource, PlanSound, PTL

\* Services create once, with updates of dates as well.  (deal_conversion.py
\* 50-129, delivery.py 148-188, material_planning.py 235-295)
THEOREM EtaCreatesOnce == EtaSpec => CreatesOnce
  BY EtaRefinesSource, SourceCreatesOnce, PTL

\* Updates stay updates when orders change, and those that stay current are of
\* other orders.
LEMMA OvertakenTyped ==
    ASSUME EtaVarsTyped, NEW orders
    PROVE  /\ Overtaken(orders) \in [Updates -> Update \cup {NoUpdate}]
           /\ \A u \in Updates :
                 Overtaken(orders)[u] # NoUpdate /\ Overtaken(orders)[u].current =>
                     /\ updates[u] # NoUpdate
                     /\ Overtaken(orders)[u] = updates[u]
                     /\ updates[u].order \notin orders
  <1>1. ASSUME NEW u \in Updates, updates[u] # NoUpdate
        PROVE  LET t == [updates[u] EXCEPT !.current = FALSE]
               IN  t \in Update /\ ~t.current
    <2>1. updates[u] \in Update
      BY <1>1 DEF EtaVarsTyped
    <2>2. QED
      BY <2>1 DEF Update
  <1>2. \A u \in Updates : updates[u] \in Update \cup {NoUpdate}
    BY DEF EtaVarsTyped
  <1>3. Overtaken(orders) \in [Updates -> Update \cup {NoUpdate}]
    BY <1>1, <1>2 DEF Overtaken
  <1>4. \A u \in Updates : Overtaken(orders)[u] =
            IF updates[u] # NoUpdate /\ updates[u].order \in orders
            THEN [updates[u] EXCEPT !.current = FALSE] ELSE updates[u]
    BY DEF Overtaken
  <1>5. QED
    BY <1>1, <1>3, <1>4

\* An update ends as one more change, from the date it has read to its own.
LEMMA FinishEffect ==
    ASSUME EtaVarsTyped, NEW u \in Updates, FinishUpdate(u)
    PROVE  LET order == updates[u].order
               change == [ previous_eta |-> updates[u].custom_supplier_eta,
                           new_eta |-> updates[u].new_eta ]
           IN  /\ order \in Docs /\ change \in EtaChange
               /\ change.previous_eta = updates[u].custom_supplier_eta
               /\ change.new_eta = updates[u].new_eta
               /\ history'[order] = Append(history[order], change)
               /\ \A d \in Docs \ {order} : history'[d] = history[d]
               /\ eta'[order] = change.new_eta
               /\ \A d \in Docs \ {order} : eta'[d] = eta[d]
               /\ UNCHANGED <<docs, promised>>
               /\ EtaVarsTyped'
  <1> DEFINE order == updates[u].order
             change == [ previous_eta |-> updates[u].custom_supplier_eta,
                         new_eta |-> updates[u].new_eta ]
  <1>1. updates[u] \in Update
    BY DEF FinishUpdate, EtaVarsTyped
  <1>2. order \in Docs /\ change \in EtaChange /\ change.new_eta = updates[u].new_eta
        /\ change.previous_eta = updates[u].custom_supplier_eta
        /\ updates[u].new_eta \in Etas
    BY <1>1 DEF Update, EtaChange
  <1>3. /\ history' = [history EXCEPT ![order] = Append(@, change)]
        /\ eta' = [eta EXCEPT ![order] = updates[u].new_eta]
        /\ updates' = [Overtaken({order}) EXCEPT ![u] = NoUpdate]
        /\ UNCHANGED <<docs, promised>>
    BY DEF FinishUpdate
  <1> HIDE DEF order, change
  <1>4. Append(history[order], change) \in Seq(EtaChange)
    BY <1>2 DEF EtaVarsTyped
  <1>5. EtaVarsTyped'
    BY <1>2, <1>3, <1>4, OvertakenTyped DEF EtaVarsTyped
  <1>6. QED
    BY <1>2, <1>3, <1>5 DEF EtaVarsTyped, order, change

\* What has been made stays, as what it is.
LEMMA DocumentStays ==
    ASSUME TypeOK, [Next]_vars, NEW d \in Docs, docs[d] # Absent
    PROVE  docs'[d] # Absent /\ docs'[d].service = docs[d].service
  <1>1. CASE \E c \in Calls, e \in Docs : Insert(c, e)
    BY <1>1 DEF Insert, TypeOK
  <1>2. CASE \E e \in Docs : SubmitDoc(e) \/ CancelDoc(e)
    <2>1. PICK e \in Existing, st \in {"Submitted", "Cancelled"} :
                  docs' = [docs EXCEPT ![e].docstatus = st]
      BY <1>2 DEF SubmitDoc, CancelDoc, Submitted
    <2>2. QED
      BY <2>1, StatusChange DEF Existing
  <1>3. QED
    BY <1>1, <1>2
    DEF Next, vars, Begin, Abandon, InsertBare, InsertIndexed, InsertPlanned,
        PlanWithoutShortage, RootMoves

\* A step of the services dates the orders it inserts and no other document.
LEMMA SourceMovesEffect ==
    ASSUME EtaVarsTyped, SourceMoves
    PROVE  /\ history' = history
           /\ \E orders : updates' = Overtaken(orders)
           /\ \A d \in Docs :
                 IF d \in NewOrders THEN eta'[d] \in Etas /\ promised'[d] = eta'[d]
                 ELSE eta'[d] = eta[d] /\ promised'[d] = promised[d]
           /\ EtaVarsTyped'
  <1>1. PICK latest \in Etas :
            /\ eta' = [d \in Docs |-> IF d \in NewOrders THEN latest ELSE eta[d]]
            /\ promised' = [d \in Docs |-> IF d \in NewOrders THEN latest ELSE promised[d]]
    BY DEF SourceMoves
  <1>2. history' = history /\ \E orders : updates' = Overtaken(orders)
    BY DEF SourceMoves
  <1>3. QED
    BY <1>1, <1>2, OvertakenTyped DEF EtaVarsTyped

\* Every step keeps the types, and updates that have been overtaken are known.
LEMMA EtaStep ==
    ASSUME TypeOK, EtaInv, [EtaNext]_etaVars
    PROVE  EtaInv'
  <1>1. CASE SourceMoves
    <2>1. PICK orders : updates' = Overtaken(orders)
      BY <1>1, SourceMovesEffect DEF EtaInv
    <2>2. EtaVarsTyped' /\ history' = history
      BY <1>1, SourceMovesEffect DEF EtaInv
    <2>3. \A d \in Docs : docs[d] # Absent => docs'[d] # Absent /\ eta'[d] = eta[d]
      BY <1>1, SourceMovesEffect, EtaStepProjects, DocumentStays DEF EtaInv, NewOrders
    <2>4. \A u \in Updates : updates'[u] # NoUpdate =>
              /\ updates[u] # NoUpdate
              /\ updates'[u].order = updates[u].order
              /\ updates[u].order \in Docs
              /\ updates'[u].current => updates'[u] = updates[u]
      <3>1. \A u \in Updates : updates[u] # NoUpdate => updates[u] \in Update
        BY DEF EtaInv, EtaVarsTyped
      <3>2. QED
        BY <2>1, <3>1, OvertakenTyped DEF EtaInv, Overtaken, Update
    <2>5. UpdatesCurrent' /\ UpdatesOfOrders'
      BY <2>3, <2>4 DEF EtaInv, UpdatesCurrent, UpdatesOfOrders
    <2>6. AbsentUntouched'
      BY <2>2, <2>3 DEF EtaInv, AbsentUntouched
    <2>7. QED
      BY <2>2, <2>5, <2>6 DEF EtaInv
  <1>2. ASSUME NEW u \in Updates, NEW d \in Docs, NEW e \in Etas, BeginUpdate(u, d, e)
        PROVE  EtaInv'
    <2> DEFINE t == [ order |-> d, custom_supplier_eta |-> eta[d],
                      new_eta |-> e, current |-> TRUE ]
    <2>1. t \in Update /\ t.order = d /\ t.custom_supplier_eta = eta[d]
      BY DEF EtaInv, EtaVarsTyped, Update
    <2>2. /\ updates' = [updates EXCEPT ![u] = t]
          /\ docs[d] # Absent
          /\ UNCHANGED <<docs, eta, promised, history>>
      BY <1>2 DEF BeginUpdate, Submitted, Existing
    <2> HIDE DEF t
    <2>3. QED
      BY <2>1, <2>2
      DEF EtaInv, EtaVarsTyped, UpdatesCurrent, UpdatesOfOrders, AbsentUntouched
  <1>3. ASSUME NEW u \in Updates, FinishUpdate(u)
        PROVE  EtaInv'
    <2> DEFINE order == updates[u].order
    <2>1. /\ EtaVarsTyped' /\ docs' = docs
          /\ order \in Docs
          /\ \A d \in Docs \ {order} : eta'[d] = eta[d] /\ history'[d] = history[d]
      BY <1>3, FinishEffect DEF EtaInv
    <2>2. /\ updates' = [Overtaken({order}) EXCEPT ![u] = NoUpdate]
          /\ updates[u] # NoUpdate
      BY <1>3 DEF FinishUpdate
    <2>3. docs[order] # Absent
      BY <2>2 DEF EtaInv, UpdatesOfOrders
    <2> HIDE DEF order
    <2>4. ASSUME NEW v \in Updates, updates'[v] # NoUpdate, updates'[v].current
          PROVE  updates'[v].custom_supplier_eta = eta'[updates'[v].order]
      <3>1. updates'[v] = Overtaken({order})[v]
        BY <2>2, <2>4, OvertakenTyped DEF EtaInv
      <3>2. updates[v] # NoUpdate /\ updates'[v] = updates[v] /\ updates[v].order # order
        BY <2>4, <3>1, OvertakenTyped DEF EtaInv
      <3>3. updates[v].order \in Docs
        BY <3>2 DEF EtaInv, EtaVarsTyped, Update
      <3>4. QED
        BY <2>1, <2>4, <3>2, <3>3 DEF EtaInv, UpdatesCurrent
    <2>5. ASSUME NEW v \in Updates, updates'[v] # NoUpdate
          PROVE  docs'[updates'[v].order] # Absent
      <3>1. /\ v # u
            /\ updates[v] # NoUpdate
            /\ updates'[v] = IF updates[v].order = order
                            THEN [updates[v] EXCEPT !.current = FALSE] ELSE updates[v]
        BY <2>2, <2>5, OvertakenTyped DEF EtaInv, Overtaken
      <3>2. updates[v] \in Update
        BY <3>1 DEF EtaInv, EtaVarsTyped
      <3>3. updates'[v].order = updates[v].order
        BY <3>1, <3>2 DEF Update
      <3>4. QED
        BY <2>1, <3>1, <3>3 DEF EtaInv, UpdatesOfOrders
    <2>6. AbsentUntouched'
      BY <2>1, <2>3 DEF EtaInv, AbsentUntouched
    <2>7. QED
      BY <2>1, <2>4, <2>5, <2>6 DEF EtaInv, UpdatesCurrent, UpdatesOfOrders
  <1>4. ASSUME NEW u \in Updates, AbandonUpdate(u)
        PROVE  EtaInv'
    BY <1>4
    DEF AbandonUpdate, EtaInv, EtaVarsTyped, UpdatesCurrent, UpdatesOfOrders, AbsentUntouched
  <1>5. CASE UNCHANGED etaVars
    BY <1>5
    DEF etaVars, vars, EtaInv, EtaVarsTyped, UpdatesCurrent, UpdatesOfOrders, AbsentUntouched
  <1>6. QED
    BY <1>1, <1>2, <1>3, <1>4, <1>5 DEF EtaNext

\* The inductive invariant of the updates.
THEOREM EtaInvariant == EtaSpec => []EtaInv
  <1>1. EtaInit => EtaInv
    BY DEF EtaInit, EtaInv, EtaVarsTyped, UpdatesCurrent, UpdatesOfOrders, AbsentUntouched
  <1>2. TypeOK /\ EtaInv /\ [EtaNext]_etaVars => EtaInv'
    BY EtaStep
  <1>3. QED
    BY <1>1, <1>2, EtaRefinesSource, SourceTypes, PTL DEF EtaSpec

\* The states of the extended system are well typed.  (procurement.py)
THEOREM EtaTypes == EtaSpec => []EtaTypeOK
  <1>1. EtaInv /\ TypeOK => EtaTypeOK
    BY DEF EtaInv, EtaVarsTyped, EtaTypeOK
  <1>2. QED
    BY <1>1, EtaInvariant, EtaRefinesSource, SourceTypes, PTL

\* A change that continues from the present date keeps the history unbroken.
LEMMA EtaHistoryStep ==
    ASSUME SnapshotIsolation = TRUE, TypeOK, EtaInv, EtaHistoryExplains, [EtaNext]_etaVars
    PROVE  EtaHistoryExplains'
  <1>1. CASE UNCHANGED <<docs, eta, promised, history>>
    BY <1>1 DEF EtaHistoryExplains
  <1>2. CASE SourceMoves
    <2>1. ASSUME NEW d \in Docs, d \in NewOrders
          PROVE  /\ history'[d] = <<>>
                 /\ eta'[d] = promised'[d]
                 /\ eta'[d] # NoEta
      BY <1>2, <2>1, SourceMovesEffect, EtaAssumption DEF EtaInv, AbsentUntouched, NewOrders
    <2>2. ASSUME NEW d \in Docs, d \notin NewOrders
          PROVE  /\ eta'[d] = eta[d] /\ promised'[d] = promised[d] /\ history'[d] = history[d]
                 /\ docs'[d] # Absent /\ docs'[d].service = "order" =>
                       docs[d] # Absent /\ docs[d].service = "order"
      BY <1>2, <2>2, SourceMovesEffect, EtaStepProjects, DocumentStays DEF EtaInv, NewOrders
    <2>3. ASSUME NEW d \in Docs
          PROVE  /\ docs'[d] # Absent /\ docs'[d].service = "order" => eta'[d] # NoEta
                 /\ \A i \in 1..Len(history'[d]) :
                        history'[d][i].previous_eta =
                            IF i = 1 THEN promised'[d] ELSE history'[d][i - 1].new_eta
                 /\ eta'[d] = IF history'[d] = <<>> THEN promised'[d]
                              ELSE history'[d][Len(history'[d])].new_eta
      <3>1. CASE d \in NewOrders
        BY <2>1, <3>1
      <3>2. CASE d \notin NewOrders
        BY <2>2, <3>2 DEF EtaHistoryExplains
      <3>3. QED
        BY <3>1, <3>2
    <2>4. QED
      BY <2>3 DEF EtaHistoryExplains
  <1>3. ASSUME NEW u \in Updates, FinishUpdate(u)
        PROVE  EtaHistoryExplains'
    <2> DEFINE order == updates[u].order
               change == [ previous_eta |-> updates[u].custom_supplier_eta,
                           new_eta |-> updates[u].new_eta ]
    <2>1. /\ order \in Docs /\ change \in EtaChange
          /\ change.previous_eta = updates[u].custom_supplier_eta
          /\ history'[order] = Append(history[order], change)
          /\ \A d \in Docs \ {order} : history'[d] = history[d]
          /\ eta'[order] = change.new_eta
          /\ \A d \in Docs \ {order} : eta'[d] = eta[d]
          /\ UNCHANGED <<docs, promised>>
      BY <1>3, FinishEffect DEF EtaInv
    <2>2. updates[u].custom_supplier_eta = eta[order]
      BY <1>3 DEF FinishUpdate, OrderLocked, EtaInv, UpdatesCurrent
    <2>3. history[order] \in Seq(EtaChange)
      BY <2>1 DEF EtaInv, EtaVarsTyped
    <2> HIDE DEF change, order
    <2>4. PICK h \in Seq(EtaChange) : h = history[order]
      BY <2>3
    <2>5. /\ \A i \in 1..Len(h) : h[i].previous_eta =
                 IF i = 1 THEN promised[order] ELSE h[i - 1].new_eta
          /\ eta[order] = IF h = <<>> THEN promised[order] ELSE h[Len(h)].new_eta
      BY <2>1, <2>4 DEF EtaHistoryExplains
    <2>6. PICK g : g = Append(h, change)
      OBVIOUS
    <2>7. /\ Len(g) = Len(h) + 1 /\ Len(h) \in Nat
          /\ \A i \in 1..Len(h) : g[i] = h[i]
          /\ g[Len(h) + 1] = change
          /\ g # <<>>
          /\ (h = <<>> <=> Len(h) = 0)
      BY <2>1, <2>6
    <2>8. ASSUME NEW i \in 1..Len(g)
          PROVE  g[i].previous_eta = IF i = 1 THEN promised[order] ELSE g[i - 1].new_eta
      <3>1. CASE i \in 1..Len(h)
        <4>1. g[i] = h[i] /\ (i # 1 => g[i - 1] = h[i - 1])
          BY <2>7, <3>1
        <4>2. h[i].previous_eta = IF i = 1 THEN promised[order] ELSE h[i - 1].new_eta
          BY <2>5, <3>1
        <4>3. QED
          BY <4>1, <4>2
      <3>2. CASE i = Len(h) + 1
        <4>1. g[i] = change /\ change.previous_eta = eta[order]
          BY <2>1, <2>2, <2>7, <3>2 DEF order
        <4>2. CASE Len(h) = 0
          BY <2>5, <2>7, <3>2, <4>1, <4>2
        <4>3. CASE Len(h) # 0
          <5>1. h # <<>> /\ i # 1 /\ i - 1 = Len(h) /\ Len(h) \in 1..Len(h)
            BY <2>7, <3>2, <4>3
          <5>2. QED
            BY <2>5, <2>7, <4>1, <5>1
        <4>4. QED
          BY <4>2, <4>3
      <3>3. QED
        BY <2>7, <2>8, <3>1, <3>2
    <2>9. eta'[order] = g[Len(g)].new_eta
      BY <2>1, <2>7
    <2>10. ASSUME NEW d \in Docs
           PROVE  /\ docs'[d] # Absent /\ docs'[d].service = "order" => eta'[d] # NoEta
                  /\ \A i \in 1..Len(history'[d]) :
                        history'[d][i].previous_eta =
                            IF i = 1 THEN promised'[d] ELSE history'[d][i - 1].new_eta
                  /\ eta'[d] = IF history'[d] = <<>> THEN promised'[d]
                               ELSE history'[d][Len(history'[d])].new_eta
      <3>1. CASE d = order
        <4>1. history'[d] = g
          BY <2>1, <2>4, <2>6, <3>1
        <4>2. eta'[d] # NoEta
          BY <2>1, <3>1, EtaAssumption DEF EtaChange
        <4>3. QED
          BY <2>1, <2>7, <2>8, <2>9, <3>1, <4>1, <4>2
      <3>2. CASE d # order
        <4>1. /\ history'[d] = history[d] /\ eta'[d] = eta[d]
              /\ UNCHANGED <<docs, promised>>
          BY <2>1, <3>2
        <4>2. QED
          BY <4>1 DEF EtaHistoryExplains
      <3>3. QED
        BY <3>1, <3>2
    <2>11. QED
      BY <2>10 DEF EtaHistoryExplains
  <1>4. QED
    BY <1>1, <1>2, <1>3
    DEF EtaNext, etaVars, BeginUpdate, AbandonUpdate

\* The history of every order explains its date, where the lock of a row that has
\* changed since the snapshot is refused.  (procurement.py 318-382,
\* supplier_eta_history.py 8-26)
THEOREM EtaHistorySound ==
    ASSUME SnapshotIsolation = TRUE PROVE EtaSpec => []EtaHistoryExplains
  <1>1. EtaInit => EtaHistoryExplains
    BY DEF EtaInit, Init, EtaHistoryExplains
  <1>2. TypeOK /\ EtaInv /\ EtaHistoryExplains /\ [EtaNext]_etaVars => EtaHistoryExplains'
    BY EtaHistoryStep
  <1>3. QED
    BY <1>1, <1>2, EtaInvariant, EtaRefinesSource, SourceTypes, PTL DEF EtaSpec
=============================================================================
