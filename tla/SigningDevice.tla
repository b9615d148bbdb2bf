--------------------------- MODULE SigningDevice ---------------------------
(***************************************************************************)
(* What a signing device promises, whatever its commands look like: one    *)
(* request at a time is put before the user, it does not change while the  *)
(* user looks at it, and a signature leaves the device only as the answer  *)
(* to an approval, over exactly that request.                              *)
(***************************************************************************)
VARIABLES
  pending,   \* the request under review: a set with one request, or empty
  out        \* the signature last handed out, likewise

Signature(account, bytes) == <<"signature", account, bytes>>

Init == pending = {} /\ out = {}

Ask ==
  /\ pending = {}
  /\ \E request \in pending' : pending' = {request}
  /\ out' = {}

Approve ==
  /\ pending # {}
  /\ pending' = {}
  /\ out' = {Signature(request.account, request.bytes) : request \in pending}

Refuse ==
  /\ pending # {}
  /\ pending' = {}
  /\ out' = {}

Forget == pending = {} /\ UNCHANGED pending /\ out' = {}

Next == Ask \/ Approve \/ Refuse \/ Forget

Spec == Init /\ [][Next]_<<pending, out>>
=============================================================================
