------------------------------ MODULE ConfigLoad ------------------------------
(***************************************************************************)
(* The start of main (backend/src/main.c) and mc_config_load               *)
(* (backend/src/config.c): the defaults, the sections of the file in the   *)
(* order they are read, the command line.  A key is the sequence of its    *)
(* value, which is empty if the key is missing.  The strings of a source   *)
(* are left out, but for those with a default.                             *)
(***************************************************************************)
EXTENDS Selections

CONSTANTS
  Files,         \* what may be at config_path
  Ports,         \* of the command line; 0 if there is none
  Homes,         \* whether HOME is set
  MaxSources, MaxSymbols, MaxTabs,
  IntMax         \* INT_MAX

(* The five tabs of the defaults have room, and the tiers fit an int.  The *)
(* arrays of a file are lists, and its numbers may be any.                 *)
ASSUME CapsAssumption ==
  {MaxSources, MaxSymbols, MaxTabs, IntMax} \subseteq Nat /\ MaxTabs >= 5 /\ IntMax >= 3
IsKey(key) == key = <<>> \/ (Len(key) = 1 /\ key[1] \in Int)
ASSUME FilesAssumption ==
  \A f \in Files :
    /\ \A s \in {f.rss, f.rest, f.ws} : IsList(s)
    /\ f.tabs # <<>> => IsList(f.tabs[1])
    /\ IsKey(f.refresh) /\ IsKey(f.http_port)
    /\ \A i \in DOMAIN f.rss : IsKey(f.rss[i].interval) /\ IsKey(f.rss[i].tier)
    /\ \A i \in DOMAIN f.rest : IsKey(f.rest[i].interval) /\ IsList(f.rest[i].symbols)
    /\ \A i \in DOMAIN f.ws : IsKey(f.ws[i].interval)

VARIABLES
  file,          \* [readable, valid, refresh, db_path, http_port, tabs, rss, rest, ws]
  port_override, home,
  section,       \* what is read next
  cfg

configVars == <<file, port_override, home, section, cfg>>

Opt(key, default) == IF key = <<>> THEN default ELSE key[1]

(* The (int) of a number of the file, which has more bits than an int.     *)
IsInt(v) == -(IntMax + 1) <= v /\ v <= IntMax
Narrow(v) == IF IsInt(v) THEN v ELSE ((v + IntMax + 1) % (2 * (IntMax + 1))) - (IntMax + 1)
OptInt(key, default) == IF key = <<>> THEN default ELSE Narrow(key[1])
Upto(n, s) == SubSeq(s, 1, IF Len(s) < n THEN Len(s) ELSE n)
Bound(v, lo, hi) == IF v < lo THEN lo ELSE IF v > hi THEN hi ELSE v

(* Arrays of strings, of which some elements are none.                     *)
NoString == -1
Strings(s) == Passing(s, LAMBDA x : x # NoString)

mc_config_defaults ==
  [refresh |-> 30, db_path |-> "~/db", http_port |-> 8420, tab_count |-> 5,
   rss |-> <<>>, rest |-> <<>>, ws |-> <<>>]

ConfigInit ==
  /\ file \in Files /\ port_override \in Ports /\ home \in Homes
  /\ section = "open"
  /\ cfg = mc_config_defaults

(* No file or no TOML: the defaults stay, as they are, and main goes on.   *)
Open ==
  /\ section = "open"
  /\ section' = IF file.readable /\ file.valid THEN "general" ELSE "options"
  /\ UNCHANGED <<file, port_override, home, cfg>>

General ==
  /\ section = "general"
  /\ cfg' = [cfg EXCEPT !.refresh = OptInt(file.refresh, @),
                        !.db_path = Opt(file.db_path, @),
                        !.http_port = OptInt(file.http_port, @)]
  /\ section' = "ui"
  /\ UNCHANGED <<file, port_override, home>>

(* Tabs, if there is a list, if only an empty one: the first MaxTabs, less *)
(* those that are no strings.                                              *)
Ui ==
  /\ section = "ui"
  /\ cfg' = [cfg EXCEPT !.tab_count =
               IF file.tabs = <<>> THEN @ ELSE Len(Strings(Upto(MaxTabs, file.tabs[1])))]
  /\ section' = "source"
  /\ UNCHANGED <<file, port_override, home>>

(* A slip: the default interval, whatever [general] says.                  *)
SlipDefaultInterval(t) ==
  [interval |-> OptInt(t.interval, mc_config_defaults.refresh),
   tier |-> Bound(OptInt(t.tier, 3), 1, 3)]

parse_rss(t) == [interval |-> OptInt(t.interval, cfg.refresh),
                 tier |-> Bound(OptInt(t.tier, 3), 1, 3)]
parse_rest(t) == [interval |-> OptInt(t.interval, cfg.refresh),
                  method |-> Opt(t.method, "GET"),
                  symbols |-> Upto(MaxSymbols, Strings(t.symbols))]
parse_ws(t) == [reconnect |-> OptInt(t.interval, 5)]

Source ==
  /\ section = "source"
  /\ cfg' = [cfg EXCEPT !.rss = Mapped(Upto(MaxSources, file.rss), parse_rss),
                        !.rest = Mapped(Upto(MaxSources, file.rest), parse_rest),
                        !.ws = Mapped(Upto(MaxSources, file.ws), parse_ws)]
  /\ section' = "paths"
  /\ UNCHANGED <<file, port_override, home>>

expand_tilde(path) == IF path = "~/db" /\ home THEN "/home/db" ELSE path

Paths ==
  /\ section = "paths"
  /\ cfg' = [cfg EXCEPT !.db_path = expand_tilde(@)]
  /\ section' = "options"
  /\ UNCHANGED <<file, port_override, home>>

Options ==
  /\ section = "options"
  /\ cfg' = [cfg EXCEPT !.http_port = IF port_override > 0 THEN port_override ELSE @]
  /\ section' = "done"
  /\ UNCHANGED <<file, port_override, home>>

ConfigNext == Open \/ General \/ Ui \/ Source \/ Paths \/ Options
ConfigSpec == ConfigInit /\ [][ConfigNext]_configVars

-----------------------------------------------------------------------------
(* A setting is the file's, where the file has one that an int holds, or   *)
(* its default; one that an int does not hold becomes some int.            *)
Settled(x, key, default) ==
  IF key = <<>> THEN x = default ELSE IsInt(x) /\ (IsInt(key[1]) => x = key[1])

(* What main goes on with, whatever is in the file: no more sources,       *)
(* symbols and tabs than the arrays have room for, and no fewer tabs than  *)
(* a list of strings has, even if it has none; tiers that have a score;    *)
(* every source's interval its own or that of [general] or the default;    *)
(* the port of the command line before the file's; no `~' in a path of a   *)
(* file that was read; and the plain defaults without a file.              *)
TabsRight ==
  /\ file.tabs = <<>> => cfg.tab_count = 5
  /\ file.tabs # <<>> =>
       LET listed == file.tabs[1]
       IN  (\A i \in DOMAIN listed : listed[i] # NoString) =>
             cfg.tab_count = IF Len(listed) < MaxTabs THEN Len(listed) ELSE MaxTabs
ConfigRight ==
  section = "done" =>
    LET loaded == file.readable /\ file.valid
    IN  /\ Len(cfg.rss) <= MaxSources /\ Len(cfg.rest) <= MaxSources /\ Len(cfg.ws) <= MaxSources
        /\ cfg.tab_count <= MaxTabs
        /\ ~loaded => [cfg EXCEPT !.http_port = 8420] = mc_config_defaults
        /\ loaded => TabsRight /\ Settled(cfg.refresh, file.refresh, 30)
        /\ \A i \in DOMAIN cfg.rss :
             /\ Settled(cfg.rss[i].interval, file.rss[i].interval, cfg.refresh)
             /\ cfg.rss[i].tier \in 1..3
             /\ \A n \in 1..3 : file.rss[i].tier = <<n>> => cfg.rss[i].tier = n
        /\ \A i \in DOMAIN cfg.rest :
             /\ Settled(cfg.rest[i].interval, file.rest[i].interval, cfg.refresh)
             /\ Len(cfg.rest[i].symbols) <= MaxSymbols
             /\ \A j \in DOMAIN cfg.rest[i].symbols : cfg.rest[i].symbols[j] # NoString
        /\ port_override > 0 => cfg.http_port = port_override
        /\ loaded /\ home => cfg.db_path # "~/db"
=============================================================================
