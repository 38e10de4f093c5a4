------------------------------ MODULE Settings ------------------------------
(***************************************************************************)
(* The table `settings` and the configuration items kept in it (db.c 70-90,   *)
(* 959-1079, models.c): an item has its value in memory, where the program      *)
(* sets it, and saves and loads it; a restart begins with what the item was     *)
(* initialised to. Any statement may fail. A key is the name of a C variable,    *)
(* a sequence of chars; values are texts, those of an integer its digits.        *)
(***************************************************************************)
EXTENDS Integers, Sequences

CONSTANTS
    Keys,
    IsInteger,   \* IsInteger[k]: the type of item k
    Default,     \* integer_init or str_init
    Texts,       \* values of a text, "" among them
    Numbers,     \* values of an integer, "0" among them
    Lower,       \* the lower case of each char of the keys
    MaxSaves     \* bound: successful saves

ASSUME SettingsAssumption ==
    /\ "" \in Texts /\ "" \notin Numbers
    /\ IsInteger \in [Keys -> BOOLEAN]
    /\ \A k \in Keys : Default[k] \in IF IsInteger[k] THEN Numbers ELSE Texts

\* SQL NULL
Null == "NULL"

ASSUME NullAssumption == Null \notin Texts \cup Numbers

VARIABLES
    settings,  \* the rows: key to value, SQL NULL among the values
    config,    \* the items in memory
    kept,      \* history: what was saved of a key and not removed by this key
    hit,       \* history: keys whose row went with the removal of another
    saves,
    called     \* history: the call that was last: [what, key, res]

settingsVars == <<settings, config, kept, hit, saves, called>>

With(f, k, v) == [n \in DOMAIN f \cup {k} |-> IF n = k THEN v ELSE f[n]]
Without(f, ks) == [k \in DOMAIN f \ ks |-> f[k]]

\* CONFIG_INIT_INT, CONFIG_INIT_STR: a text is empty until it is loaded.
Initial(k) == IF IsInteger[k] THEN Default[k] ELSE ""

SettingsInit ==
    /\ settings = <<>> /\ config = [k \in Keys |-> Initial(k)]
    /\ kept = <<>> /\ hit = {} /\ saves = 0
    /\ called = [what |-> "none", key |-> <<>>, res |-> 0]

Told(what, k, res) == called' = [what |-> what, key |-> k, res |-> res]

-----------------------------------------------------------------------------
\* The program sets an item.
Assign(k) ==
    /\ \E v \in IF IsInteger[k] THEN Numbers ELSE Texts : config' = [config EXCEPT ![k] = v]
    /\ Told("assign", k, 0)
    /\ UNCHANGED <<settings, kept, hit, saves>>

\* SQLITE_BIND_STRING; an integer is bound as one, and the column makes it a text.
Bound(value) == IF value = "" THEN Null ELSE value

\* db_insert_setting_str, db_insert_setting_int: REPLACE INTO
db_insert_setting(k, value) == settings' = With(settings, k, Bound(value))

config_save(k) ==
    /\ saves < MaxSaves /\ saves' = saves + 1
    /\ db_insert_setting(k, config[k])
    /\ kept' = With(kept, k, config[k]) /\ hit' = hit \ {k}
    /\ Told("save", k, 0)
    /\ UNCHANGED config

\* Mutant of Found: a NULL is taken for no value.
FoundValue(k) == IF k \in DOMAIN settings THEN settings[k] # Null ELSE FALSE

\* SQLITE_ROW
Found(k) == k \in DOMAIN settings

\* sqlite_get_string_column: NULL is the empty text.
Column(k) == IF settings[k] = Null THEN "" ELSE settings[k]

\* The row or the default; for an integer 1 tells that it was there.
db_get_setting_str(k) == [res |-> 0, out |-> IF Found(k) THEN Column(k) ELSE Default[k]]
db_get_setting_int(k) ==
    IF Found(k) THEN [res |-> 1, out |-> settings[k]] ELSE [res |-> 0, out |-> Default[k]]

config_load(k) ==
    LET got == IF IsInteger[k] THEN db_get_setting_int(k) ELSE db_get_setting_str(k)
    IN  /\ config' = [config EXCEPT ![k] = got.out]
        /\ Told("load", k, got.res)
        /\ UNCHANGED <<settings, kept, hit, saves>>

\* Without a default: the text stays as it is, and SQLITE_DONE is returned.
SqliteDone == 101
db_get_setting(k) ==
    /\ ~IsInteger[k]
    /\ config' = [config EXCEPT ![k] = IF Found(k) THEN Column(k) ELSE @]
    /\ Told("get", k, IF Found(k) THEN 0 ELSE SqliteDone)
    /\ UNCHANGED <<settings, kept, hit, saves>>

\* LIKE: an underscore stands for any char, and case does not count.
Like(pattern, key) ==
    /\ Len(pattern) = Len(key)
    /\ \A i \in DOMAIN key : pattern[i] = "_" \/ Lower[pattern[i]] = Lower[key[i]]

db_remove_setting(k) ==
    LET gone == {n \in DOMAIN settings : Like(k, n)}
    IN  /\ settings' = Without(settings, gone)
        /\ kept' = Without(kept, {k}) /\ hit' = (hit \cup gone) \ {k}
        /\ Told("remove", k, 0)
        /\ UNCHANGED <<config, saves>>

db_clear_setting ==
    /\ settings' = <<>> /\ kept' = <<>> /\ hit' = {}
    /\ Told("clear", <<>>, 0)
    /\ UNCHANGED <<config, saves>>

\* Any of these fails: nothing changes, neither in the table nor in memory.
CallFails(k) ==
    /\ Told("failed", k, -1)
    /\ UNCHANGED <<settings, config, kept, hit, saves>>

\* The program ends or crashes, and starts again.
Restart ==
    /\ config' = [k \in Keys |-> Initial(k)]
    /\ Told("none", <<>>, 0)
    /\ UNCHANGED <<settings, kept, hit, saves>>

SettingsNext ==
    \/ \E k \in Keys :
          \/ Assign(k) \/ config_save(k) \/ config_load(k) \/ db_get_setting(k)
          \/ db_remove_setting(k) \/ CallFails(k)
    \/ db_clear_setting \/ Restart

SettingsSpec == SettingsInit /\ [][SettingsNext]_settingsVars

-----------------------------------------------------------------------------
(* An item that is loaded has the value it was last saved with, the empty text *)
(* included, or its default if it was never saved or was removed, over failures *)
(* and restarts; only the removal of another key that matches it by LIKE takes   *)
(* a value away, and then the item is its default. An integer's load, and the     *)
(* reading of a text without a default, tell whether it was there.                 *)
(* (db.c 75-90, 188-192, 252-263, 959-1079, models.c)                               *)
LoadTells ==
    called.what \in {"load", "get"} =>
        LET k == called.key
            there == k \in DOMAIN kept /\ k \notin hit
        IN  /\ there => config[k] = kept[k]
            /\ ~there /\ called.what = "load" => config[k] = Default[k]
            /\ IsInteger[k] => (called.res = 1 <=> there)
            /\ called.what = "get" => (called.res = 0 <=> there)
=============================================================================
