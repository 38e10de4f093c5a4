----------------------------- MODULE Passwords -----------------------------
(***************************************************************************)
(* The password of the service menus (util.c 604-633): passwd_debug makes it   *)
(* of the terminal, the menu and the time of day, passwd_debug_check undoes     *)
(* that, at a later time and perhaps for another terminal. Both read the clock  *)
(* twice, first the Persian date and then the hour and minute.                   *)
(***************************************************************************)
EXTENDS Numbers, Sequences

CONSTANTS
    Terminals, Menus,
    Moments      \* the clock: [date, time], as the numbers their digits make

ASSUME MenusAssumption == Menus \subseteq 0..99 /\ Terminals \subseteq Nat

Times == 0..2359
ASSUME MomentsAssumption == Moments \in Seq([date : Nat, time : Times]) /\ Moments # <<>>

VARIABLES
    now,         \* the moment, an index of Moments
    next,        \* the reading of the clock that is next, 1 to 4
    terminal, menu,
    date,        \* as the call under way has read it
    pin,         \* what passwd_debug wrote
    read,        \* history: the moment of each reading
    told         \* *menu, -1: the password is refused

passwordVars == <<now, next, terminal, menu, date, pin, read, told>>

PasswordsInit ==
    /\ now = 1 /\ next = 0 /\ date = 0 /\ pin = 0 /\ read = <<>> /\ told = -1
    /\ terminal = 0 /\ menu = 0

\* Somebody asks for the password of a menu.
Ask ==
    /\ next = 0 /\ next' = 1
    /\ terminal' \in Terminals /\ menu' \in Menus
    /\ UNCHANGED <<now, date, pin, read, told>>

\* Mutant of Coded: the digits of the menu are exchanged.
CodedSwapped(m, time) == 30300000 + 1000000 * (m % 10) + (m \div 10) * 10000 + time

\* "3%d3%d" of the menu's digits, and the time behind
Coded(m, time) == 30300000 + (m \div 10) * 1000000 + 10000 * (m % 10) + time

\* "%Y%m%d", the first reading of either call
ReadDate ==
    /\ next \in {1, 3} /\ next' = next + 1
    /\ date' = Moments[now].date /\ read' = Append(read, now)
    /\ UNCHANGED <<now, terminal, menu, pin, told>>

\* passwd_debug
passwd_debug ==
    /\ next = 2 /\ next' = 3
    /\ pin' = Xor(Xor(date, Coded(menu, Moments[now].time)), terminal)
    /\ read' = Append(read, now)
    /\ UNCHANGED <<now, terminal, menu, date, told>>

\* temp as it is read with "%08d": whether it has eight digits, the time in the last
\* four of them, the menu in the second and the fourth
EightDigits(temp) == temp < 100000000
TimeIn(temp) == temp % 10000
MenuIn(temp) == 10 * ((temp \div 1000000) % 10) + ((temp \div 10000) % 10)

\* passwd_debug_check
passwd_debug_check ==
    /\ next = 4 /\ next' = 5
    /\ LET temp == Xor(Xor(pin, terminal), date)
       IN  told' = IF EightDigits(temp) /\ TimeIn(temp) = Moments[now].time
                   THEN MenuIn(temp) ELSE -1
    /\ read' = Append(read, now)
    /\ UNCHANGED <<now, terminal, menu, date, pin>>

\* The next minute, or the next day
ClockMoves ==
    /\ next < 5 /\ now < Len(Moments) /\ now' = now + 1
    /\ UNCHANGED <<next, terminal, menu, date, pin, read, told>>

PasswordsNext == Ask \/ ReadDate \/ passwd_debug \/ passwd_debug_check \/ ClockMoves

PasswordsSpec == PasswordsInit /\ [][PasswordsNext]_passwordVars

-----------------------------------------------------------------------------
(* When both calls read the same date, a password is accepted just in the      *)
(* minute it was made in, and tells its menu, even if the date changed between  *)
(* the two readings of a call. (util.c 604-633)                                  *)
PinTells ==
    next = 5 /\ Moments[read[1]].date = Moments[read[3]].date =>
        told = IF Moments[read[2]].time = Moments[read[4]].time THEN menu ELSE -1
=============================================================================
