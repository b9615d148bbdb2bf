----------------------------- MODULE MCScreens -----------------------------
(***************************************************************************)
(* TLC instance of the two builds' screens, composed with the application: *)
(* HAVE_BAGL or HAVE_NBGL is chosen at the start.  The commands open each  *)
(* kind of review and each flow of a transaction, or are answered at once, *)
(* or throw.  Sizes are those of the code.                                 *)
(***************************************************************************)
EXTENDS MCMessages, Screens

-----------------------------------------------------------------------------
Apdu(ins, p1, lc) ==
  [SignTransaction(Short(Req(WALLET_V3, "transfer", 0, 9)), << >>) EXCEPT
     !.ins = ins, !.p1 = p1, !.lc = lc, !.header = None]

FlowRequests ==
  {Req(WALLET_V3, "transfer", 0, 9), Req(WALLET_V3, "burn", 0, 40),
   Req(SAFE_MULTISIG_WALLET, "confirm", 0, 0), Req(SAFE_MULTISIG_WALLET, "deploy", 0, 0)}

ScreenCommands ==
  { [Apdu("GET_PUBLIC_KEY", p1, 4) EXCEPT !.account = 3] : p1 \in {0, 1} }
  \cup { [Apdu("GET_ADDRESS", 1, 5) EXCEPT !.account = 4, !.wallet = EVER_WALLET],
         [Apdu("SIGN", 1, 36) EXCEPT !.account = 5, !.payload = "payload"],
         Apdu("SIGN", 1, 35), [Apdu("unknown", 0, 0) EXCEPT !.parsed = FALSE] }
  \cup {SignTransaction(Short(m), Message(m)) : m \in FlowRequests}
=============================================================================
