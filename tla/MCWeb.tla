------------------------------- MODULE MCWeb -------------------------------
(***************************************************************************)
(* The two uses of mongoose beside the connection to the switch, which share  *)
(* no state: Download, and HttpApi with the outcomes of fn_api, of sizes that  *)
(* let two or three requests fill the buffer together, and one that fills it    *)
(* alone. A behaviour is one of them.                                            *)
(***************************************************************************)
EXTENDS Download, HttpApi

VARIABLE subject

Of(bytes, name, admin, method, body) ==
    [size |-> bytes, known |-> name, admin |-> admin, method |-> method, body |-> body]

MCRequests ==
    {Of(1, TRUE, TRUE, "GET", "untyped"), Of(2, TRUE, TRUE, "POST", "form"),
     Of(1, TRUE, TRUE, "POST", "untyped"), Of(2, TRUE, TRUE, "POST", "strange"),
     Of(1, TRUE, TRUE, "POST", "empty"),
     Of(2, TRUE, FALSE, "GET", "untyped"), Of(1, FALSE, TRUE, "GET", "untyped"),
     Of(5, TRUE, TRUE, "POST", "form")}

web == <<subject, vars, apiVars>>

WebInit ==
    /\ subject \in {"download", "server"}
    /\ Init /\ ApiInit

WebNext ==
    \/ subject = "download" /\ Next /\ UNCHANGED <<subject, apiVars>>
    \/ subject = "server" /\ ApiNext /\ UNCHANGED <<subject, vars>>

\* What FairSpec and ApiFairSpec assume.
WebSpec ==
    /\ WebInit /\ [][WebNext]_web
    /\ WF_vars(Finish)
    /\ WF_apiVars(EvHttpMsg) /\ WF_apiVars(ParseEnd)
    /\ SF_apiVars(Write) /\ SF_apiVars(CloseConn)
=============================================================================
