------------------------------- MODULE States -------------------------------
(***************************************************************************)
(* The two state machines of the Payments service, core/states.py: which   *)
(* state changes Store.transition accepts, and which states are final.     *)
(* "ABSENT" stands for a row that has not been inserted.                   *)
(***************************************************************************)

PaymentState ==
  {"CREATED", "PENDING", "UNKNOWN", "NEEDS_REVIEW", "SUCCEEDED", "DECLINED",
   "EXPIRED"}

PaymentTerminal == {"SUCCEEDED", "DECLINED", "EXPIRED"}

\* PAYMENT_LEGAL. A terminal state has no way out.
PaymentLegal ==
  {<<"CREATED", t>> : t \in {"PENDING", "DECLINED", "UNKNOWN"}}
    \cup {<<"PENDING", t>> : t \in PaymentTerminal \cup {"UNKNOWN"}}
    \cup {<<"UNKNOWN", t>> : t \in PaymentTerminal \cup {"NEEDS_REVIEW"}}
    \cup {<<"NEEDS_REVIEW", t>> : t \in PaymentTerminal}

DisbursementState ==
  {"CREATED", "PENDING", "UNKNOWN", "NEEDS_REVIEW", "SUCCEEDED", "FAILED"}

DisbursementTerminal == {"SUCCEEDED", "FAILED"}

\* DISBURSEMENT_LEGAL.
DisbursementLegal ==
  {<<"CREATED", t>> : t \in {"PENDING", "FAILED", "UNKNOWN"}}
    \cup {<<"PENDING", t>> : t \in DisbursementTerminal \cup {"UNKNOWN"}}
    \cup {<<"UNKNOWN", t>> : t \in DisbursementTerminal \cup {"NEEDS_REVIEW"}}
    \cup {<<"NEEDS_REVIEW", t>> : t \in DisbursementTerminal}
=============================================================================
