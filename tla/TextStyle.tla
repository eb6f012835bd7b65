------------------------------ MODULE TextStyle ------------------------------
(***************************************************************************)
(* Text style control (utils.c:268): set_text_style() prints the escape      *)
(* sequence of a style, whose parts are looked up among the enumerations.    *)
(* The terminal is not part of the library: it takes the numbers of a        *)
(* sequence one after the other, knowing nothing of colors and modes.        *)
(***************************************************************************)
EXTENDS Enums

CONSTANTS
  FgNames, BgNames, ModeNames   \* bounds: the names that the application uses; they
                                \* may be unknown to the library

None == "none"   \* nil

VARIABLES
  enabled,     \* TextStyleEnabled
  terminal     \* what it shows: foreground, background, attributes

styleVars == <<enumsVars, enabled, terminal>>

Default == [fg |-> 0, bg |-> 0, attributes |-> {}]

StyleInit == EnumsInit /\ enabled = FALSE /\ terminal = Default

Library == EnumsNext /\ UNCHANGED <<enabled, terminal>>

Text_style_enable(onoff) ==
  /\ stage = "loaded"
  /\ enabled' = onoff
  /\ UNCHANGED <<enumsVars, terminal>>

(* How a terminal takes one number ("Select Graphic Rendition").             *)
Rendition(t, code) ==
  CASE code \in (30 .. 37) \cup (90 .. 97) -> [t EXCEPT !.fg = code]
    [] code \in (40 .. 47) \cup (100 .. 107) -> [t EXCEPT !.bg = code]
    [] code = 22 -> [t EXCEPT !.attributes = @ \ {1, 2}]
    [] code \in 1 .. 7 -> [t EXCEPT !.attributes = @ \cup {code}]
    [] OTHER -> t

Shown(t, codes) ==
  LET after[i \in 0 .. Len(codes)] == IF i = 0 THEN t ELSE Rendition(after[i - 1], codes[i])
  IN after[Len(codes)]

Known(domain, name) == name = None \/ str_search(domain, name) # NULL

(* One case for each combination of the parts that are given.               *)
EscapeByCaseForgetful(fg, mode, bg) ==  \* a wrong variant: with three parts, one is forgotten
  LET part(domain, name) == IF name = None THEN <<>> ELSE <<enums_check(domain, name)>>
  IN IF None \notin {fg, mode, bg} THEN part(TEXT_MODE, mode) \o part(BG_COLOR, bg)
     ELSE part(TEXT_MODE, mode) \o part(BG_COLOR, bg) \o part(FG_COLOR, fg)

Escape(fg, mode, bg) ==
  LET part(domain, name) == IF name = None THEN <<>> ELSE <<enums_check(domain, name)>>
  IN part(TEXT_MODE, mode) \o part(BG_COLOR, bg) \o part(FG_COLOR, fg)

Set_text_style(fg, mode, bg) ==
  /\ stage = "loaded" /\ enabled
  /\ Known(FG_COLOR, fg) /\ Known(TEXT_MODE, mode) /\ Known(BG_COLOR, bg)  \* or an error is raised
  /\ terminal' = Shown(terminal, Escape(fg, mode, bg))
  /\ UNCHANGED <<enumsVars, enabled>>

Reset_text_style ==
  /\ stage = "loaded" /\ enabled
  /\ terminal' = Default
  /\ UNCHANGED <<enumsVars, enabled>>

StyleNext ==
  \/ Library
  \/ \E onoff \in BOOLEAN : Text_style_enable(onoff)
  \/ \E fg \in FgNames \cup {None}, mode \in ModeNames \cup {None}, bg \in BgNames \cup {None} :
       Set_text_style(fg, mode, bg)
  \/ Reset_text_style

(* The loop of enums_free_all() goes on; nothing else is owed.               *)
StyleSpec == StyleInit /\ [][StyleNext]_styleVars /\ WF_styleVars(Library /\ stage = "exiting")

(* A style changes what it names and leaves the rest as it is, whatever was   *)
(* set before and whichever parts it has: "nil (to preserve current)"         *)
(* (doc/textstyle.adoc:19).  The codes of colors must not be those of modes.  *)
StyleIsShown ==
  [][\A fg \in FgNames \cup {None}, mode \in ModeNames \cup {None}, bg \in BgNames \cup {None} :
       Set_text_style(fg, mode, bg) =>
         /\ terminal'.fg = IF fg = None THEN terminal.fg ELSE enums_check(FG_COLOR, fg)
         /\ terminal'.bg = IF bg = None THEN terminal.bg ELSE enums_check(BG_COLOR, bg)
         /\ mode = None => terminal'.attributes = terminal.attributes
         /\ mode \notin {None, "normal"} => enums_check(TEXT_MODE, mode) \in terminal'.attributes]_styleVars

=============================================================================
