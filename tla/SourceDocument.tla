--------------------------- MODULE SourceDocument ---------------------------
(***************************************************************************)
(* The services that make one document out of another, at most once: the   *)
(* project of a deal, the receipt of a delivery, the Material Request of a *)
(* Sales Order, and from there the Request for Quotation, the quotation of *)
(* a supplier and the Purchase Order.                                      *)
(*                                                                         *)
(* Models create_project_from_deal, confirm_customer_receipt,              *)
(* create_material_request, make_project_rfq, submit_supplier_quote and    *)
(* make_purchase_order_from_supplier_quote.  All have one shape: read the  *)
(* source, take a file lock and the lock of its row, reload it, look for a *)
(* document that was made of it, insert one.  The first read fixes the     *)
(* snapshot that reload and lookup see, so a call is two steps: Begin, all *)
(* it reads, and its insert, which holds the row lock to the commit.  What *)
(* keeps two inserts apart is not the lookup: it is a unique index, or the *)
(* save of the material plan, or nothing.                                  *)
(***************************************************************************)
EXTENDS Naturals

CONSTANTS
    Roots,       \* deals, deliveries and Sales Orders
    ServiceOf,   \* the service that each of them is the source of
    Docs,        \* potential documents
    Suppliers,
    Invited,     \* the suppliers a Request for Quotation names
    Calls,       \* calls of the services in flight at a time
    NoSupplier, NoCall, NoDoc, NoPlan

\* Nothing but the lookup keeps these from making two.
Bare == {"rfq", "quote", "order"}
\* A unique index on the link to the source, which counts every document.
Indexed == {"project", "receipt"}
\* Every request comes with a save of the plan of its order.
Planned == {"material"}
Services == Bare \cup Indexed \cup Planned

ASSUME SourceAssumption ==
    /\ ServiceOf \in [Roots -> Indexed \cup Planned]
    /\ Roots \cap Docs = {}
    /\ Invited \subseteq Suppliers
    /\ NoSupplier \notin Suppliers
    /\ NoDoc \notin Docs
    /\ NoPlan \notin Docs
    /\ NoDoc # NoPlan

\* Which documents are the source of the services of procurement.
SourceServiceOf == [rfq |-> "material", quote |-> "rfq", order |-> "quote"]

\* The Request for Quotation and the supplier's quotation are submitted by the
\* service that inserts them.
SubmittedOnInsert == {"rfq", "quote"}

Document ==
    [ service : Services,
      source : Roots \cup Docs,
      party : Invited \cup {NoSupplier},
      docstatus : {"Draft", "Submitted", "Cancelled"} ]

Absent == [service |-> "Absent"]

Call ==
    [ service : Services,
      source : Roots \cup Docs,
      party : Invited \cup {NoSupplier},
      current : BOOLEAN ]     \* the plan has not been saved since the first read

VARIABLES
    docs,
    ready,   \* the roots that are submitted, open and linked to a project
    plans,   \* of each Sales Order, the material_request of its plan
    calls    \* calls between their first read and their insert

vars == <<docs, ready, plans, calls>>

TypeOK ==
    /\ docs \in [Docs -> Document \cup {Absent}]
    /\ ready \subseteq Roots
    /\ plans \in [Roots -> Docs \cup {NoDoc, NoPlan}]
    /\ calls \in [Calls -> Call \cup {NoCall}]

Existing == {d \in Docs : docs[d] # Absent}
Standing == {d \in Existing : docs[d].docstatus # "Cancelled"}
Submitted(s) == s \in Existing /\ docs[s].docstatus = "Submitted"

\* The documents that were made of a source, for a party.
MadeOf(service, s, p) ==
    { d \in Existing :
        docs[d].service = service /\ docs[d].source = s /\ docs[d].party = p }

\* What the lookup of a service finds.
Found(service, s, p) ==
    IF service \in Indexed THEN MadeOf(service, s, p)
                           ELSE MadeOf(service, s, p) \cap Standing

\* A mutant: a quotation of any supplier.
SourceFitsAnybody(service, s, p) ==
    IF s \in Roots THEN ServiceOf[s] = service /\ s \in ready /\ p = NoSupplier
    ELSE /\ service \in Bare
         /\ Submitted(s)
         /\ docs[s].service = SourceServiceOf[service]
         /\ service # "quote" => p = NoSupplier

\* The checks of the source and, for a quotation, of the supplier.
SourceFits(service, s, p) ==
    IF s \in Roots THEN ServiceOf[s] = service /\ s \in ready /\ p = NoSupplier
    ELSE /\ service \in Bare
         /\ Submitted(s)
         /\ docs[s].service = SourceServiceOf[service]
         /\ IF service = "quote" THEN p \in Invited ELSE p = NoSupplier

Init ==
    /\ docs = [d \in Docs |-> Absent]
    /\ ready = Roots
    /\ plans = [r \in Roots |-> NoPlan]
    /\ calls = [c \in Calls |-> NoCall]

-----------------------------------------------------------------------------
(* The services.                                                           *)

\* All reads of a call.  Where the lookup finds a document the call returns it.
Begin(c, service, s, p) ==
    /\ calls[c] = NoCall
    /\ SourceFits(service, s, p)
    /\ Found(service, s, p) = {}
    /\ calls' = [calls EXCEPT ![c] =
                    [service |-> service, source |-> s, party |-> p, current |-> TRUE]]
    /\ UNCHANGED <<docs, ready, plans>>

\* An error of a check, an index, a save or the isolation level, a lock not
\* obtained within 15 seconds.
Abandon(c) ==
    /\ calls[c] # NoCall
    /\ calls' = [calls EXCEPT ![c] = NoCall]
    /\ UNCHANGED <<docs, ready, plans>>

InFlight(c, services) == calls[c] # NoCall /\ calls[c].service \in services

Insert(c, d) ==
    /\ docs[d] = Absent
    /\ docs' = [docs EXCEPT ![d] =
                   [ service |-> calls[c].service, source |-> calls[c].source,
                     party |-> calls[c].party,
                     docstatus |-> IF calls[c].service \in SubmittedOnInsert
                                   THEN "Submitted" ELSE "Draft" ]]

EndCall(c) == calls' = [calls EXCEPT ![c] = NoCall]

\* No index, and the source row is left as it is: nothing tells the call that a
\* second document appeared since its snapshot.
InsertBare(c, d) ==
    /\ InFlight(c, Bare)
    /\ Insert(c, d)
    /\ EndCall(c)
    /\ UNCHANGED <<ready, plans>>

\* A mutant: crm_deal and delivery_note without their unique indexes.
InsertUnindexed(c, d) ==
    /\ InFlight(c, Indexed)
    /\ Insert(c, d)
    /\ EndCall(c)
    /\ UNCHANGED <<ready, plans>>

InsertIndexed(c, d) ==
    /\ InFlight(c, Indexed)
    /\ MadeOf(calls[c].service, calls[c].source, calls[c].party) = {}
    /\ Insert(c, d)
    /\ EndCall(c)
    /\ UNCHANGED <<ready, plans>>

\* A mutant: the plan is written without the comparison of a save.
WritePlan(c, request) ==
    /\ plans' = [plans EXCEPT ![calls[c].source] = request]
    /\ EndCall(c)

\* The save of the plan as this call has read it: refused if it has been saved
\* since, or inserted, sales_order being unique.  Every other call that read the
\* plan before is now outdated.
SavePlan(c, request) ==
    /\ calls[c].current
    /\ plans' = [plans EXCEPT ![calls[c].source] = request]
    /\ calls' = [ k \in Calls |->
                    IF k = c THEN NoCall
                    ELSE IF InFlight(k, Planned) /\ calls[k].source = calls[c].source
                    THEN [calls[k] EXCEPT !.current = FALSE]
                    ELSE calls[k] ]

\* A shortage: the plan, the draft request, and the plan again with its name.
InsertPlanned(c, d) ==
    /\ InFlight(c, Planned)
    /\ Insert(c, d)
    /\ SavePlan(c, d)
    /\ UNCHANGED ready

\* No shortage: the plan loses its request, none is made.
PlanWithoutShortage(c) ==
    /\ InFlight(c, Planned)
    /\ SavePlan(c, NoDoc)
    /\ UNCHANGED <<docs, ready>>

-----------------------------------------------------------------------------
(* The life of the documents, as the framework has it.                     *)

\* Sales Orders are closed and opened again, deliveries and orders cancelled.
RootMoves(r) ==
    /\ ServiceOf[r] # "project"
    /\ ready' = IF r \in ready THEN ready \ {r} ELSE ready \cup {r}
    /\ UNCHANGED <<docs, plans, calls>>

\* Refused when its source has been cancelled.
SubmitDoc(d) ==
    /\ d \in Existing
    /\ docs[d].service \in {"material", "order"}
    /\ docs[d].docstatus = "Draft"
    /\ docs[d].source \in Roots \cup Standing
    /\ docs' = [docs EXCEPT ![d].docstatus = "Submitted"]
    /\ UNCHANGED <<ready, plans, calls>>

\* Not while a submitted document refers to it.
CancelDoc(d) ==
    /\ Submitted(d)
    /\ \A e \in Existing : docs[e].source = d => docs[e].docstatus # "Submitted"
    /\ docs' = [docs EXCEPT ![d].docstatus = "Cancelled"]
    /\ UNCHANGED <<ready, plans, calls>>

Next ==
    \/ \E c \in Calls, service \in Services, s \in Roots \cup Docs,
          p \in Suppliers \cup {NoSupplier} : Begin(c, service, s, p)
    \/ \E c \in Calls : Abandon(c)
    \/ \E c \in Calls, d \in Docs : InsertBare(c, d)
    \/ \E c \in Calls, d \in Docs : InsertIndexed(c, d)
    \/ \E c \in Calls, d \in Docs : InsertPlanned(c, d)
    \/ \E c \in Calls : PlanWithoutShortage(c)
    \/ \E r \in Roots : RootMoves(r)
    \/ \E d \in Docs : SubmitDoc(d)
    \/ \E d \in Docs : CancelDoc(d)

Spec == Init /\ [][Next]_vars

-----------------------------------------------------------------------------
(* What must hold.                                                         *)

\* The plan of an order names the request that stands for it, although calls
\* that found none, or no shortage, are overtaken by one that made it.
\* (material_planning.py 187-215, 249-295.)
PlanNamesRequest ==
    \A d \in Standing : docs[d].service \in Planned => plans[docs[d].source] = d

\* Deals, deliveries and Sales Orders get one standing document at most, made
\* when there is none, whatever calls meet.  (deal_conversion.py 50-129,
\* delivery.py 148-188, material_planning.py 235-295.)
Once == INSTANCE CreateOnce
            WITH Sources <- Roots, Targets <- Docs,
                 standing <- [r \in Roots |-> {d \in Standing : docs[d].source = r}]
CreatesOnce == Once!OnceSpec

\* docs/architecture/data-model.md:35: the services of procurement are kept
\* idempotent by a unique source or the check for an existing document.
ProcuredOnce ==
    \A d, e \in Standing :
        /\ docs[d].service \in Bare
        /\ docs[e].service = docs[d].service
        /\ docs[e].source = docs[d].source
        /\ docs[e].party = docs[d].party
        => d = e
=============================================================================
