--------------------------- MODULE MCConversions ---------------------------
(***************************************************************************)
(* The pure computations of the library, which share no state: the calendar   *)
(* over two centuries, the helpers over small inputs of each kind, the crypto    *)
(* helpers with a toy cipher, and the service passwords around midnight. A       *)
(* behaviour walks through one of them.                                          *)
(***************************************************************************)
EXTENDS Calendar, Helpers, Ssm, Passwords

VARIABLE subject

MCYears == 1901..2099

Texts(chars, n) == UNION {[1..k -> chars] : k \in 0..n}

Binary == Texts({0, 165, 255}, 4) \cup {[k \in 1..5 |-> 51 * k], [k \in 1..6 |-> 255 - 16 * k]}

MCJobs ==
    [kind : {"base32"}, in : Binary, arg : 0..11]
    \cup [kind : {"hex"}, in : Binary, arg : {0}]
    \cup [kind : {"bcd"}, in : 0..120 \cup {999, 1000, 90807}, arg : {0}]
    \cup [kind : {"pad"}, in : Texts({0, 7}, 4), arg : 0..6]
    \cup [kind : {"separator"}, in : Texts({0, 7}, 7), arg : {0}]
    \cup [kind : {"iransystem", "windows1256"}, in : Texts(1..255, 1), arg : {0}]
    \cup [kind : {"iransystem"}, in : Texts({65, \h8B, \hF2, \hFF, \hC0}, 3), arg : {0}]
    \cup [kind : {"subnet"}, in : [1..4 -> -2..4], arg : {0}]
    \cup [kind : {"bitmap"}, in : 0..25, arg : 0..4]

\* Neither linear nor its own inverse
MCCipher ==
    [k \in {1, 2} |-> [b \in [1..2 -> {0, 1}] |->
        CASE b = <<0, 0>> -> IF k = 1 THEN <<0, 1>> ELSE <<1, 1>>
          [] b = <<0, 1>> -> <<1, 0>>
          [] b = <<1, 0>> -> IF k = 1 THEN <<1, 1>> ELSE <<0, 1>>
          [] b = <<1, 1>> -> <<0, 0>>]]

MCMessages == Texts({0, 1}, 5)

MCPins ==
    {[pin |-> [i \in 1..n |-> (3 * i) % 10], track |-> [i \in 1..12 |-> (7 * i + s) % 10]] :
        n \in 0..12, s \in {0, 5}}

MCMoments ==
    <<[date |-> 14021228, time |-> 2358], [date |-> 14021228, time |-> 2359],
      [date |-> 14021229, time |-> 0], [date |-> 14021229, time |-> 1],
      [date |-> 14021229, time |-> 2358], [date |-> 14030101, time |-> 0]>>

conversions == <<subject, vars, helperVars, ssmVars, passwordVars>>

ConversionsInit ==
    /\ subject \in {"calendar", "helpers", "ssm", "passwords"}
    /\ Init /\ (subject # "calendar" => today.year = 1901)
    /\ HelpersInit /\ SsmInit /\ PasswordsInit

ConversionsNext ==
    \/ subject = "calendar" /\ Next /\ UNCHANGED <<subject, helperVars, ssmVars, passwordVars>>
    \/ subject = "helpers" /\ HelpersNext /\ UNCHANGED <<subject, vars, ssmVars, passwordVars>>
    \/ subject = "ssm" /\ SsmNext /\ UNCHANGED <<subject, vars, helperVars, passwordVars>>
    \/ subject = "passwords" /\ PasswordsNext /\ UNCHANGED <<subject, vars, helperVars, ssmVars>>

ConversionsSpec == ConversionsInit /\ [][ConversionsNext]_conversions
=============================================================================
