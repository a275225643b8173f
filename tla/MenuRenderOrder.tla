-------------------------- MODULE MenuRenderOrder --------------------------
(***************************************************************************)
(* src/fixes/detail/projected_menu_order.h: in which order the menus of    *)
(* the stack are drawn.  A message box over the main menu is projected     *)
(* into a texture that the mist menu shows, but the mist menu comes first  *)
(* in the stack; the draw loop therefore visits its slots rotated.         *)
(*                                                                         *)
(* A stack is given by its roles, a function on the slots 0 .. count - 1.  *)
(***************************************************************************)
EXTENDS Naturals

CONSTANT MaxMenuCount   \* kMaxMenuCount

ASSUME MenuCountAssumption == MaxMenuCount \in Nat

Roles == {"blocked", "projected", "main", "mist", "messageBox"}

With(roles, r) == {i \in DOMAIN roles : roles[i] = r}

\* Main, mist menu and message box are there once each, in this order.
Ordered(roles, mist, message) ==
  /\ With(roles, "mist") = {mist} /\ With(roles, "messageBox") = {message}
  /\ \E main \in DOMAIN roles :
       With(roles, "main") = {main} /\ main < mist /\ mist < message

\* Mutant: the slots between the mist menu and the message box are not looked at.
WindowsAcrossAnything(roles) ==
  {w \in (DOMAIN roles) \X (DOMAIN roles) : Ordered(roles, w[1], w[2])}

\* The slots <<mist, message>> that are rotated: one pair, or none if a menu
\* that must not move lies between them.
Windows(roles) ==
  {w \in (DOMAIN roles) \X (DOMAIN roles) :
     /\ Ordered(roles, w[1], w[2])
     /\ \A i \in (w[1] + 1)..w[2] : roles[i] \in {"projected", "messageBox"}}

\* "Rotate only the render iterator": the mist menu's turn comes last.
Rotate(window, current) ==
  IF window[1] <= current /\ current < window[2] THEN current + 1
  ELSE IF current = window[2] THEN window[1]
  ELSE current

\* The slot that is drawn when the loop is at slot current.
SelectRenderSlot(count, current, roles) ==
  IF count > MaxMenuCount \/ current >= count \/ Windows(roles) = {}
  THEN current
  ELSE Rotate(CHOOSE w \in Windows(roles) : TRUE, current)
=============================================================================
