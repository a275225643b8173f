---------------------- MODULE MainMenuMessageBoxProofs ----------------------
(***************************************************************************)
(* SelectRenderSlot for menu stacks of every length and every assignment   *)
(* of roles: the draw loop visits every slot once, also when it starts in  *)
(* the middle of the stack, and the mist menu comes last in its window.    *)
(* From it MainMenuMessageBox, for every set of menus, every number of     *)
(* menu events under way and every length of the menu stack.               *)
(***************************************************************************)
EXTENDS MainMenuMessageBox, FiniteSetTheorems, SequenceTheorems, TLAPS

\* A window is an interval of the stack.
LEMMA WindowBounds ==
  ASSUME NEW count \in Nat, NEW roles \in [0..(count - 1) -> Roles],
         NEW w \in Windows(roles)
  PROVE  /\ w[1] \in 0..(count - 1) /\ w[2] \in 0..(count - 1) /\ w[1] < w[2]
         /\ roles[w[1]] = "mist" /\ roles[w[2]] = "messageBox"
         /\ \A i \in (w[1] + 1)..w[2] : roles[i] \in {"projected", "messageBox"}
<1>1. /\ w[1] \in 0..(count - 1) /\ w[2] \in 0..(count - 1)
      /\ Ordered(roles, w[1], w[2])
      /\ \A i \in (w[1] + 1)..w[2] : roles[i] \in {"projected", "messageBox"}
  BY DEF Windows
<1>2. w[1] < w[2] /\ w[1] \in With(roles, "mist") /\ w[2] \in With(roles, "messageBox")
  BY <1>1 DEF Ordered
<1> QED BY <1>1, <1>2 DEF With

\* What the loop draws is its own slot, or the turn of a window.
LEMMA SelectCases ==
  ASSUME NEW count \in Nat, NEW roles \in [0..(count - 1) -> Roles]
  PROVE  \/ \A i \in 0..(count - 1) : SelectRenderSlot(count, i, roles) = i
         \/ \E w \in Windows(roles) :
              \A i \in 0..(count - 1) : SelectRenderSlot(count, i, roles) = Rotate(w, i)
<1>1. CASE count > MaxMenuCount \/ Windows(roles) = {}
  BY <1>1 DEF SelectRenderSlot
<1>2. CASE ~(count > MaxMenuCount) /\ Windows(roles) # {}
  <2> DEFINE w == CHOOSE v \in Windows(roles) : TRUE
  <2>1. w \in Windows(roles)
    BY <1>2
  <2>2. ASSUME NEW i \in 0..(count - 1) PROVE SelectRenderSlot(count, i, roles) = Rotate(w, i)
    <3>1. ~(i >= count)
      OBVIOUS
    <3> QED BY <3>1, <1>2 DEF SelectRenderSlot
  <2> QED BY <2>1, <2>2
<1> QED BY <1>1, <1>2

\* SelectRenderSlot is a permutation of the slots: no menu is drawn twice and
\* none is left out.
THEOREM EverySlotOnce ==
  ASSUME NEW count \in Nat, NEW roles \in [0..(count - 1) -> Roles]
  PROVE  /\ \A i \in 0..(count - 1) : SelectRenderSlot(count, i, roles) \in 0..(count - 1)
         /\ \A i, j \in 0..(count - 1) :
              SelectRenderSlot(count, i, roles) = SelectRenderSlot(count, j, roles) => i = j
         /\ \A k \in 0..(count - 1) :
              \E i \in 0..(count - 1) : SelectRenderSlot(count, i, roles) = k
<1>1. CASE \A i \in 0..(count - 1) : SelectRenderSlot(count, i, roles) = i
  BY <1>1
<1>2. ASSUME NEW w \in Windows(roles),
             \A i \in 0..(count - 1) : SelectRenderSlot(count, i, roles) = Rotate(w, i)
      PROVE  /\ \A i \in 0..(count - 1) : SelectRenderSlot(count, i, roles) \in 0..(count - 1)
             /\ \A i, j \in 0..(count - 1) :
                  SelectRenderSlot(count, i, roles) = SelectRenderSlot(count, j, roles) => i = j
             /\ \A k \in 0..(count - 1) :
                  \E i \in 0..(count - 1) : SelectRenderSlot(count, i, roles) = k
  <2>1. w[1] \in 0..(count - 1) /\ w[2] \in 0..(count - 1) /\ w[1] < w[2]
    BY WindowBounds
  <2>2. \A i \in 0..(count - 1) : Rotate(w, i) \in 0..(count - 1)
    BY <2>1 DEF Rotate
  <2>3. \A i, j \in 0..(count - 1) : Rotate(w, i) = Rotate(w, j) => i = j
    BY <2>1 DEF Rotate
  <2>4. ASSUME NEW k \in 0..(count - 1) PROVE \E i \in 0..(count - 1) : Rotate(w, i) = k
    <3> DEFINE i == IF k = w[1] THEN w[2]
                    ELSE IF w[1] < k /\ k <= w[2] THEN k - 1 ELSE k
    <3>1. i \in 0..(count - 1) /\ Rotate(w, i) = k
      BY <2>1 DEF Rotate
    <3> QED BY <3>1
  <2> QED BY <1>2, <2>2, <2>3, <2>4
<1> QED BY <1>1, <1>2, SelectCases

\* The loop may start at any slot whose menu is not one that a window moves
\* forward: the slots from there on are drawn from there on.  (Topmost menus,
\* where the native loop starts, are classified blocked, main or mist.)
THEOREM StartKept ==
  ASSUME NEW count \in Nat, NEW roles \in [0..(count - 1) -> Roles],
         NEW first \in 0..(count - 1),
         first = 0 \/ roles[first] \notin {"projected", "messageBox"},
         NEW i \in 0..(count - 1)
  PROVE  SelectRenderSlot(count, i, roles) >= first <=> i >= first
<1>1. CASE SelectRenderSlot(count, i, roles) = i
  BY <1>1
<1>2. ASSUME NEW w \in Windows(roles), SelectRenderSlot(count, i, roles) = Rotate(w, i)
      PROVE  SelectRenderSlot(count, i, roles) >= first <=> i >= first
  <2>1. /\ w[1] \in 0..(count - 1) /\ w[2] \in 0..(count - 1) /\ w[1] < w[2]
        /\ \A k \in (w[1] + 1)..w[2] : roles[k] \in {"projected", "messageBox"}
    BY WindowBounds
  <2>2. first <= w[1] \/ w[2] < first
    BY <2>1
  <2>3. Rotate(w, i) >= first <=> i >= first
    BY <2>1, <2>2 DEF Rotate
  <2> QED BY <1>2, <2>3
<1> QED BY <1>1, <1>2, SelectCases

\* In a window the message box and the projected menus are drawn before the
\* mist menu, in their old order; everything outside keeps its turn.
THEOREM MistDrawnLast ==
  ASSUME NEW count \in Nat, count <= MaxMenuCount,
         NEW roles \in [0..(count - 1) -> Roles], NEW v \in Windows(roles)
  PROVE  \E w \in Windows(roles) :
           /\ \A i \in 0..(count - 1) :
                i < w[1] \/ w[2] < i => SelectRenderSlot(count, i, roles) = i
           /\ \A i \in w[1]..(w[2] - 1) : SelectRenderSlot(count, i, roles) = i + 1
           /\ roles[SelectRenderSlot(count, w[2], roles)] = "mist"
<1> DEFINE w == CHOOSE u \in Windows(roles) : TRUE
<1>1. w \in Windows(roles)
  OBVIOUS
<1>2. /\ w[1] \in 0..(count - 1) /\ w[2] \in 0..(count - 1) /\ w[1] < w[2]
      /\ roles[w[1]] = "mist"
  BY <1>1, WindowBounds
<1>3. ASSUME NEW i \in 0..(count - 1) PROVE SelectRenderSlot(count, i, roles) = Rotate(w, i)
  <2>1. ~(i >= count) /\ ~(count > MaxMenuCount) /\ Windows(roles) # {}
    BY MenuCountAssumption
  <2> QED BY <2>1 DEF SelectRenderSlot
<1> HIDE DEF w
<1>4. \A i \in 0..(count - 1) : i < w[1] \/ w[2] < i => Rotate(w, i) = i
  BY <1>2 DEF Rotate
<1>5. \A i \in w[1]..(w[2] - 1) : i \in 0..(count - 1) /\ Rotate(w, i) = i + 1
  BY <1>2 DEF Rotate
<1>6. Rotate(w, w[2]) = w[1]
  BY <1>2 DEF Rotate
<1> QED BY <1>1, <1>2, <1>3, <1>4, <1>5, <1>6
-----------------------------------------------------------------------------
(* The invariant of draw loop and popup.                                   *)

\* The draw loop has drawn the turns start .. at - 1, and began at a slot that
\* no window moves forward.
DrawInv ==
  /\ menuStack \in Seq(Menu) /\ Count <= MaxMenuCount
  /\ drawn \in Seq(Nat)
  /\ at = Idle \/ /\ start \in 0..(Count - 1) /\ at \in start..Count
                  /\ start = 0 \/ StackRoles[start] \notin {"projected", "messageBox"}
                  /\ Len(drawn) = at - start
                  /\ \A n \in 1..Len(drawn) :
                       drawn[n] = SelectRenderSlot(Count, start + n - 1, StackRoles)
  /\ at = Idle => drawn = <<>>

\* pending says whether the one task is in the queue, and the sink is
\* registered from Arm until the popup is created.
PopupInv ==
  /\ pending \in BOOLEAN /\ queued \in BOOLEAN /\ armed \in BOOLEAN
  /\ sink \in BOOLEAN /\ rejected \in BOOLEAN /\ events \in Nat
  /\ tasks = IF pending THEN 1 ELSE 0
  /\ created = IF queued THEN 1 ELSE 0
  /\ sink <=> armed /\ ~queued
  /\ NoChanceMissed

IInv == DrawInv /\ PopupInv
-----------------------------------------------------------------------------
(* The draw loop.                                                          *)

LEMMA RolesTyped ==
  ASSUME menuStack \in Seq(Menu)
  PROVE  /\ Count \in Nat
         /\ StackRoles \in [0..(Count - 1) -> Roles]
         /\ \A i \in 0..(Count - 1) : StackRoles[i] = Classify(menuStack[i + 1])
<1>1. \A m \in Menu : Classify(m) \in Roles
  BY DEF Classify, Roles
<1>2. Count \in Nat /\ \A i \in 0..(Count - 1) : menuStack[i + 1] \in Menu
  BY DEF Count
<1> QED BY <1>1, <1>2 DEF StackRoles

LEMMA BeginDrawInv ==
  ASSUME DrawInv, BeginDraw
  PROVE  DrawInv'
<1>1. /\ menuStack' = menuStack /\ topmost' = topmost /\ unsafe' = unsafe /\ drawn' = drawn
      /\ Count' = Count /\ StackRoles' = StackRoles
  BY DEF BeginDraw, flagVars, Count, StackRoles, Classify
<1>2. PICK i \in 0..(Count - 1) : FirstSlot(i) /\ start' = i /\ at' = i
  BY DEF BeginDraw
<1>3. drawn = <<>> /\ menuStack \in Seq(Menu) /\ Count <= MaxMenuCount /\ Count \in Nat
  BY RolesTyped DEF DrawInv, BeginDraw
<1>4. i = 0 \/ StackRoles[i] \notin {"projected", "messageBox"}
  <2>1. ASSUME menuStack[i + 1] \in topmost
        PROVE  Classify(menuStack[i + 1]) \notin {"projected", "messageBox"}
    BY <2>1 DEF Classify
  <2> QED BY <2>1, <1>2, <1>3, RolesTyped DEF FirstSlot
<1>5. at' # Idle /\ Len(drawn') = 0 /\ at' - start' = 0
  BY <1>1, <1>2, <1>3, MenuCountAssumption DEF Idle
<1> QED
  BY <1>1, <1>2, <1>3, <1>4, <1>5 DEF DrawInv

LEMMA DrawSlotInv ==
  ASSUME DrawInv, DrawSlot
  PROVE  DrawInv'
<1>1. /\ menuStack' = menuStack /\ topmost' = topmost /\ unsafe' = unsafe /\ start' = start
      /\ Count' = Count /\ StackRoles' = StackRoles
  BY DEF DrawSlot, flagVars, Count, StackRoles, Classify
<1>2. /\ menuStack \in Seq(Menu) /\ Count <= MaxMenuCount /\ Count \in Nat
      /\ StackRoles \in [0..(Count - 1) -> Roles] /\ drawn \in Seq(Nat)
  BY RolesTyped DEF DrawInv
<1>3. at # Idle /\ start \in 0..(Count - 1) /\ at \in start..(Count - 1)
  BY <1>2, MenuCountAssumption DEF DrawInv, DrawSlot, Idle
<1> DEFINE slot == SelectRenderSlot(Count, at, StackRoles)
<1>4. slot \in Nat
  BY <1>2, <1>3, EverySlotOnce
<1>5. drawn' = Append(drawn, slot) /\ at' = at + 1
  BY DEF DrawSlot
<1>6. Len(drawn) = at - start /\ \A n \in 1..Len(drawn) :
        drawn[n] = SelectRenderSlot(Count, start + n - 1, StackRoles)
  BY <1>3 DEF DrawInv
<1> HIDE DEF slot
<1>7. /\ drawn' \in Seq(Nat) /\ Len(drawn') = at' - start
      /\ \A n \in 1..Len(drawn) : drawn'[n] = drawn[n]
      /\ drawn'[Len(drawn')] = slot /\ Len(drawn') = Len(drawn) + 1
  BY <1>2, <1>3, <1>4, <1>5, <1>6
<1>8. ASSUME NEW n \in 1..Len(drawn')
      PROVE  drawn'[n] = SelectRenderSlot(Count, start + n - 1, StackRoles)
  <2>1. CASE n = Len(drawn')
    <3>1. start + n - 1 = at
      BY <2>1, <1>3, <1>5, <1>7
    <3> QED BY <3>1, <2>1, <1>7 DEF slot
  <2>2. CASE n # Len(drawn')
    <3>1. n \in 1..Len(drawn)
      BY <2>2, <1>7, <1>2
    <3> QED BY <3>1, <1>6, <1>7
  <2> QED BY <2>1, <2>2
<1>9. at' \in start..Count /\ at' # Idle
  BY <1>2, <1>3, <1>5, MenuCountAssumption DEF Idle
<1>10. start = 0 \/ StackRoles[start] \notin {"projected", "messageBox"}
  BY <1>3 DEF DrawInv
<1> QED
  BY <1>1, <1>2, <1>3, <1>7, <1>8, <1>9, <1>10 DEF DrawInv

LEMMA EndDrawInv ==
  ASSUME DrawInv, EndDraw
  PROVE  DrawInv'
  BY DEF DrawInv, EndDraw, flagVars, Count

\* A step outside the draw loop and the stack.
LEMMA NoDrawInv ==
  ASSUME DrawInv, UNCHANGED <<flagVars, menuStack, drawVars>>
  PROVE  DrawInv'
<1>1. Count' = Count /\ StackRoles' = StackRoles
  BY DEF flagVars, Count, StackRoles, Classify
<1> QED BY <1>1 DEF DrawInv, drawVars

\* Between two draws the stack is free to change.
LEMMA StackInv ==
  ASSUME DrawInv, at = Idle, UNCHANGED drawVars,
         menuStack' \in Seq(Menu), Len(menuStack') <= MaxMenuCount
  PROVE  DrawInv'
  BY DEF DrawInv, drawVars, Count
-----------------------------------------------------------------------------
(* The popup.                                                              *)

\* A sequence without its i-th element.
LEMMA RemoveAtElements ==
  ASSUME NEW S, NEW s \in Seq(S), NEW i \in 1..Len(s)
  PROVE  /\ RemoveAt(s, i) \in Seq(S) /\ Len(RemoveAt(s, i)) = Len(s) - 1
         /\ \A j \in 1..(i - 1) : RemoveAt(s, i)[j] = s[j]
         /\ \A j \in i..(Len(s) - 1) : RemoveAt(s, i)[j] = s[j + 1]
<1> DEFINE a == SubSeq(s, 1, i - 1)
           b == SubSeq(s, i + 1, Len(s))
<1>1. Len(s) \in Nat
  OBVIOUS
<1>2. a \in Seq(S) /\ Len(a) = i - 1 /\ \A j \in 1..(i - 1) : a[j] = s[j]
  BY <1>1
<1>3. b \in Seq(S) /\ Len(b) = Len(s) - i /\ \A j \in 1..(Len(s) - i) : b[j] = s[j + i]
  BY <1>1
<1>4. RemoveAt(s, i) = a \o b
  BY DEF RemoveAt
<1> HIDE DEF a, b
<1>5. /\ a \o b \in Seq(S) /\ Len(a \o b) = Len(a) + Len(b)
      /\ \A j \in 1..(Len(a) + Len(b)) :
           (a \o b)[j] = IF j <= Len(a) THEN a[j] ELSE b[j - Len(a)]
  BY <1>2, <1>3, ConcatProperties
<1>6. ASSUME NEW j \in i..(Len(s) - 1) PROVE (a \o b)[j] = s[j + 1]
  <2>1. /\ j \in 1..(Len(a) + Len(b)) /\ ~(j <= Len(a))
        /\ j - Len(a) \in 1..(Len(s) - i) /\ (j - Len(a)) + i = j + 1
    BY <1>1, <1>2, <1>3
  <2> QED BY <2>1, <1>3, <1>5
<1>7. ASSUME NEW j \in 1..(i - 1) PROVE (a \o b)[j] = s[j]
  BY <1>1, <1>2, <1>3, <1>5
<1>8. Len(a) + Len(b) = Len(s) - 1
  BY <1>1, <1>2, <1>3
<1> QED BY <1>4, <1>5, <1>6, <1>7, <1>8

\* Which menus are open after one has opened or closed.
LEMMA OpenMenus ==
  ASSUME menuStack \in Seq(Menu), NEW n
  PROVE  /\ \A m \in Menu : menuStack' = Append(menuStack, m) /\ n # m =>
              (IsOpen(n)' <=> IsOpen(n))
         /\ \A i \in 1..Len(menuStack) :
              menuStack' = RemoveAt(menuStack, i) /\ n # menuStack[i] =>
                (IsOpen(n)' <=> IsOpen(n))
<1>1. ASSUME NEW m \in Menu, menuStack' = Append(menuStack, m), n # m
      PROVE  IsOpen(n)' <=> IsOpen(n)
  <2>1. /\ DOMAIN menuStack' = 1..(Len(menuStack) + 1) /\ DOMAIN menuStack = 1..Len(menuStack)
        /\ Len(menuStack) \in Nat
        /\ menuStack'[Len(menuStack) + 1] = m
        /\ \A i \in 1..Len(menuStack) : menuStack'[i] = menuStack[i]
    BY <1>1
  <2> QED BY <2>1, <1>1 DEF IsOpen, Range
<1>2. ASSUME NEW i \in 1..Len(menuStack), menuStack' = RemoveAt(menuStack, i), n # menuStack[i]
      PROVE  IsOpen(n)' <=> IsOpen(n)
  <2>1. /\ DOMAIN menuStack' = 1..(Len(menuStack) - 1) /\ DOMAIN menuStack = 1..Len(menuStack)
        /\ Len(menuStack) \in Nat
        /\ \A j \in 1..(i - 1) : menuStack'[j] = menuStack[j]
        /\ \A j \in i..(Len(menuStack) - 1) : menuStack'[j] = menuStack[j + 1]
    BY <1>2, RemoveAtElements
  <2>2. ASSUME NEW j \in 1..Len(menuStack), menuStack[j] = n
        PROVE  \E k \in 1..(Len(menuStack) - 1) : menuStack'[k] = n
    <3>1. CASE j < i
      BY <3>1, <2>1, <2>2
    <3>2. CASE j > i
      <4>1. j - 1 \in i..(Len(menuStack) - 1) /\ j - 1 \in 1..(Len(menuStack) - 1)
            /\ (j - 1) + 1 = j
        BY <3>2, <2>1
      <4>2. menuStack'[j - 1] = menuStack[(j - 1) + 1]
        BY <4>1, <2>1
      <4> QED BY <4>1, <4>2, <2>2
    <3> QED BY <3>1, <3>2, <2>1, <2>2, <1>2
  <2>3. ASSUME NEW k \in 1..(Len(menuStack) - 1)
        PROVE  \E j \in 1..Len(menuStack) : menuStack'[k] = menuStack[j]
    <3>1. CASE k < i
      BY <3>1, <2>1
    <3>2. CASE k >= i
      <4>1. k \in i..(Len(menuStack) - 1) /\ k + 1 \in 1..Len(menuStack)
        BY <3>2, <2>1
      <4> QED BY <4>1, <2>1
    <3> QED BY <3>1, <3>2, <2>1
  <2>4. IsOpen(n) <=> \E j \in 1..Len(menuStack) : menuStack[j] = n
    BY <2>1 DEF IsOpen, Range
  <2>5. IsOpen(n)' <=> \E k \in 1..(Len(menuStack) - 1) : menuStack'[k] = n
    BY <2>1 DEF IsOpen, Range
  <2> QED BY <2>2, <2>3, <2>4, <2>5
<1> QED BY <1>1, <1>2

\* A menu that nobody watches does not decide whether the popup may be shown; a
\* watched one sends an event.
LEMMA NotifyInv ==
  ASSUME PopupInv, NEW m, Notify(m),
         \A n \in Watched : n # m => (IsOpen(n)' <=> IsOpen(n)),
         UNCHANGED <<armed, pending, queued, sink, tasks, created>>
  PROVE  PopupInv'
<1>1. CASE sink /\ m \in Watched
  <2>1. events' > 0 /\ events' \in Nat
    BY <1>1 DEF Notify, PopupInv
  <2>2. NoChanceMissed'
    BY <2>1 DEF NoChanceMissed
  <2>3. rejected' \in BOOLEAN
    BY <1>1 DEF Notify
  <2> QED BY <2>1, <2>2, <2>3 DEF PopupInv
<1>2. CASE ~sink
  BY <1>2 DEF Notify, PopupInv, NoChanceMissed
<1>3. CASE m \notin Watched
  <2>1. Showable' <=> Showable
    BY <1>3 DEF Showable, Watched
  <2> QED BY <2>1, <1>3 DEF Notify, PopupInv, NoChanceMissed
<1> QED BY <1>1, <1>2, <1>3

\* A request of a popup that has not been created leaves one task in the queue.
LEMMA RequestAddsOne ==
  ASSUME PopupInv, ~queued, Request
  PROVE  pending' = TRUE /\ tasks' = 1
<1>1. CASE pending
  BY <1>1 DEF PopupInv, Request
<1>2. CASE ~pending
  BY <1>2 DEF PopupInv, Request
<1> QED BY <1>1, <1>2

\* The steps that leave the menus alone.
LEMMA PopupSteps ==
  ASSUME PopupInv, UNCHANGED menuStack, Draw \/ Arm \/ ProcessEvent \/ RunTask
  PROVE  PopupInv'
<1>1. Showable' <=> Showable
  BY DEF Showable, IsOpen
<1>2. CASE Draw
  BY <1>1, <1>2 DEF Draw, BeginDraw, DrawSlot, EndDraw, popupVars, PopupInv, NoChanceMissed
<1>3. CASE Arm
  <2>1. pending' = TRUE /\ tasks' = 1
    BY <1>3, RequestAddsOne DEF Arm, PopupInv
  <2>2. NoChanceMissed'
    BY <2>1 DEF NoChanceMissed
  <2> QED BY <1>3, <2>1, <2>2 DEF Arm, PopupInv
<1>4. CASE ProcessEvent
  <2>1. CASE sink
    <3>1. pending' = TRUE /\ tasks' = 1
      BY <1>4, <2>1, RequestAddsOne DEF ProcessEvent, PopupInv
    <3>2. NoChanceMissed'
      BY <3>1 DEF NoChanceMissed
    <3> QED BY <1>4, <3>1, <3>2 DEF ProcessEvent, PopupInv
  <2>2. CASE ~sink
    <3>1. NoChanceMissed'
      BY <1>4, <2>2 DEF ProcessEvent, PopupInv, NoChanceMissed
    <3> QED BY <1>4, <2>2, <3>1 DEF ProcessEvent, PopupInv
  <2> QED BY <2>1, <2>2
<1>5. CASE RunTask
  <2>1. pending' = FALSE /\ tasks' = 0
    BY <1>5 DEF RunTask, PopupInv
  <2>2. CASE queued \/ ~Showable
    <3>1. NoChanceMissed'
      BY <1>1, <1>5, <2>2 DEF RunTask, PopupInv, NoChanceMissed
    <3> QED BY <1>5, <2>1, <2>2, <3>1 DEF RunTask, PopupInv
  <2>3. CASE ~queued /\ Showable
    <3>1. NoChanceMissed'
      BY <1>5, <2>3 DEF RunTask, Create, NoChanceMissed
    <3>2. CASE queued' = TRUE /\ sink' = FALSE /\ created' = created + 1 /\ UNCHANGED rejected
      <4>1. created' = 1
        BY <2>3, <3>2 DEF PopupInv
      <4>2. queued' \in BOOLEAN /\ sink' \in BOOLEAN /\ created' = (IF queued' THEN 1 ELSE 0)
        BY <3>2, <4>1
      <4>3. sink' <=> armed' /\ ~queued'
        BY <3>2
      <4>4. /\ pending' \in BOOLEAN /\ armed' \in BOOLEAN /\ rejected' \in BOOLEAN
            /\ events' \in Nat /\ tasks' = (IF pending' THEN 1 ELSE 0)
        BY <1>5, <2>1, <3>2 DEF RunTask, PopupInv
      <4> QED BY <3>1, <4>2, <4>3, <4>4 DEF PopupInv
    <3>3. CASE rejected' = TRUE /\ UNCHANGED <<queued, sink, created>>
      BY <1>5, <2>1, <2>3, <3>1, <3>3 DEF RunTask, PopupInv
    <3> QED BY <1>5, <2>3, <3>2, <3>3 DEF RunTask, Create
  <2> QED BY <2>2, <2>3
<1> QED BY <1>2, <1>3, <1>4, <1>5
-----------------------------------------------------------------------------
(* Together.                                                               *)

LEMMA InitInv == Init => IInv
<1> SUFFICES ASSUME Init PROVE IInv
  OBVIOUS
<1>1. menuStack = <<>> /\ Count = 0 /\ MaxMenuCount \in Nat
  BY MenuCountAssumption DEF Init, Count
<1>2. DrawInv
  BY <1>1 DEF Init, DrawInv
<1>3. NoChanceMissed
  BY DEF Init, NoChanceMissed
<1>4. PopupInv
  BY <1>3 DEF Init, PopupInv
<1> QED BY <1>2, <1>4 DEF IInv

LEMMA NextInv == IInv /\ [Next]_vars => IInv'
<1> SUFFICES ASSUME IInv, [Next]_vars PROVE IInv'
  OBVIOUS
<1>1. DrawInv /\ PopupInv /\ menuStack \in Seq(Menu)
  BY DEF IInv, DrawInv
<1>2. CASE Draw
  <2>1. DrawInv'
    BY <1>1, <1>2, BeginDrawInv, DrawSlotInv, EndDrawInv DEF Draw
  <2>2. UNCHANGED menuStack
    BY <1>2 DEF Draw, BeginDraw, DrawSlot, EndDraw
  <2> QED BY <1>1, <1>2, <2>1, <2>2, PopupSteps DEF IInv
<1>3. CASE Arm \/ ProcessEvent \/ RunTask
  <2>1. UNCHANGED <<flagVars, menuStack, drawVars>>
    BY <1>3 DEF Arm, ProcessEvent, RunTask
  <2> QED BY <1>1, <1>3, <2>1, NoDrawInv, PopupSteps DEF IInv
<1>4. ASSUME NEW m \in Menu, Open(m) PROVE IInv'
  <2>1. menuStack' = Append(menuStack, m) /\ Count < MaxMenuCount
    BY <1>4 DEF Open
  <2>2. menuStack' \in Seq(Menu) /\ Len(menuStack') <= MaxMenuCount
    BY <2>1, <1>1, MenuCountAssumption DEF Count
  <2>3. DrawInv'
    BY <1>1, <1>4, <2>2, StackInv DEF Open
  <2>4. \A n \in Watched : n # m => (IsOpen(n)' <=> IsOpen(n))
    BY <1>1, <2>1, OpenMenus
  <2>5. PopupInv'
    BY <1>1, <1>4, <2>4, NotifyInv DEF Open
  <2> QED BY <2>3, <2>5 DEF IInv
<1>5. ASSUME NEW i \in 1..Count, Close(i) PROVE IInv'
  <2>1. menuStack' = RemoveAt(menuStack, i) /\ i \in 1..Len(menuStack)
    BY <1>5 DEF Close, Count
  <2>2. menuStack' \in Seq(Menu) /\ Len(menuStack') = Len(menuStack) - 1
    BY <2>1, <1>1, RemoveAtElements
  <2>3. DrawInv'
    <3>1. Len(menuStack') <= MaxMenuCount
      BY <1>1, <2>2, MenuCountAssumption DEF DrawInv, Count
    <3> QED BY <1>1, <1>5, <2>2, <3>1, StackInv DEF Close
  <2>4. \A n \in Watched : n # menuStack[i] => (IsOpen(n)' <=> IsOpen(n))
    BY <1>1, <2>1, OpenMenus
  <2>5. PopupInv'
    BY <1>1, <1>5, <2>4, NotifyInv DEF Close
  <2> QED BY <2>3, <2>5 DEF IInv
<1>6. CASE UNCHANGED vars
  <2>1. UNCHANGED <<flagVars, menuStack, drawVars>>
    BY <1>6 DEF vars, flagVars, drawVars
  <2>2. PopupInv'
    BY <1>1, <1>6 DEF vars, PopupInv, NoChanceMissed, Showable, IsOpen
  <2> QED BY <1>1, <2>1, <2>2, NoDrawInv DEF IInv
<1> QED BY <1>2, <1>3, <1>4, <1>5, <1>6 DEF Next

LEMMA Invariance == Spec => []IInv
  BY InitInv, NextInv, PTL DEF Spec

\* Request/RunTask: one task at a time, one popup, for every set of menus and
\* however menu events and tasks interleave.
THEOREM PopupOnce == Spec => []OnePopup
<1>1. IInv => OnePopup
  BY DEF IInv, PopupInv, OnePopup
<1> QED BY <1>1, Invariance, PTL

\* Request: a state of the menus that allows the popup is never overlooked.
THEOREM ChanceTaken == Spec => []NoChanceMissed
<1>1. IInv => NoChanceMissed
  BY DEF IInv, PopupInv
<1> QED BY <1>1, Invariance, PTL

\* The draw loop draws every menu from the last topmost one on exactly once,
\* whatever the stack holds.
THEOREM DrawnOnce == Spec => []EachMenuDrawnOnce
<1>1. ASSUME IInv PROVE EachMenuDrawnOnce
  <2> SUFFICES ASSUME at = Count
               PROVE  /\ Range(drawn) = start..(Count - 1)
                      /\ Len(drawn) = Cardinality(Range(drawn))
    BY DEF EachMenuDrawnOnce
  <2>1. /\ Count \in Nat /\ StackRoles \in [0..(Count - 1) -> Roles]
        /\ at # Idle /\ drawn \in Seq(Nat)
    BY <1>1, RolesTyped, MenuCountAssumption DEF IInv, DrawInv, Idle
  <2>2. /\ start \in 0..(Count - 1)
        /\ start = 0 \/ StackRoles[start] \notin {"projected", "messageBox"}
        /\ Len(drawn) = Count - start
        /\ \A n \in 1..Len(drawn) :
             drawn[n] = SelectRenderSlot(Count, start + n - 1, StackRoles)
    BY <1>1, <2>1 DEF IInv, DrawInv
  <2>3. \A i \in 0..(Count - 1) :
          /\ SelectRenderSlot(Count, i, StackRoles) \in 0..(Count - 1)
          /\ SelectRenderSlot(Count, i, StackRoles) >= start <=> i >= start
    BY <2>1, <2>2, EverySlotOnce, StartKept
  <2>4. \A k \in 0..(Count - 1) :
          \E i \in 0..(Count - 1) : SelectRenderSlot(Count, i, StackRoles) = k
    BY <2>1, EverySlotOnce
  <2>5. Range(drawn) = {drawn[n] : n \in 1..Len(drawn)}
    BY <2>1 DEF Range
  <2>6. ASSUME NEW n \in 1..Len(drawn) PROVE drawn[n] \in start..(Count - 1)
    <3>1. start + n - 1 \in 0..(Count - 1) /\ start + n - 1 >= start
      BY <2>1, <2>2
    <3> QED BY <3>1, <2>2, <2>3
  <2>7. ASSUME NEW k \in start..(Count - 1) PROVE \E n \in 1..Len(drawn) : drawn[n] = k
    <3>1. PICK i \in 0..(Count - 1) : SelectRenderSlot(Count, i, StackRoles) = k
      BY <2>2, <2>4
    <3>2. i >= start
      BY <2>2, <2>3, <3>1
    <3>3. i - start + 1 \in 1..Len(drawn) /\ start + (i - start + 1) - 1 = i
      BY <2>1, <2>2, <3>2
    <3> QED BY <2>2, <3>1, <3>3
  <2>8. Range(drawn) = start..(Count - 1)
    BY <2>5, <2>6, <2>7
  <2>9. Cardinality(start..(Count - 1)) = Count - start
    <3>1. Cardinality(start..(Count - 1)) =
            IF start > Count - 1 THEN 0 ELSE (Count - 1) - start + 1
      BY <2>1, <2>2, FS_Interval
    <3> QED BY <3>1, <2>1, <2>2
  <2> QED BY <2>2, <2>8, <2>9
<1> QED BY <1>1, Invariance, PTL
-----------------------------------------------------------------------------
(* Whose turn it is.                                                       *)

\* A menu is in the stack once.
EachMenuOnce == \A i, j \in 1..Len(menuStack) : menuStack[i] = menuStack[j] => i = j

LEMMA RemoveAtKeepsOnce ==
  ASSUME menuStack \in Seq(Menu), EachMenuOnce, NEW i \in 1..Len(menuStack),
         menuStack' = RemoveAt(menuStack, i)
  PROVE  EachMenuOnce'
<1> DEFINE old(k) == IF k < i THEN k ELSE k + 1
<1>1. /\ Len(menuStack) \in Nat /\ Len(menuStack') = Len(menuStack) - 1
      /\ \A j \in 1..(i - 1) : menuStack'[j] = menuStack[j]
      /\ \A j \in i..(Len(menuStack) - 1) : menuStack'[j] = menuStack[j + 1]
  BY RemoveAtElements
<1>2. \A k \in 1..Len(menuStack') :
        old(k) \in 1..Len(menuStack) /\ menuStack'[k] = menuStack[old(k)]
  BY <1>1
<1>3. \A j, k \in 1..Len(menuStack') : old(j) = old(k) => j = k
  BY <1>1
<1> HIDE DEF old
<1> QED BY <1>2, <1>3 DEF EachMenuOnce

LEMMA OnceInvariance == Spec => []EachMenuOnce
<1>1. Init => EachMenuOnce
  BY DEF Init, EachMenuOnce
<1>2. ASSUME IInv, EachMenuOnce, [Next]_vars PROVE EachMenuOnce'
  <2>1. menuStack \in Seq(Menu) /\ Len(menuStack) \in Nat
    BY <1>2 DEF IInv, DrawInv
  <2>2. CASE UNCHANGED menuStack
    BY <1>2, <2>2 DEF EachMenuOnce
  <2>3. ASSUME NEW m \in Menu, Open(m) PROVE EachMenuOnce'
    <3>1. menuStack' = Append(menuStack, m) /\ \A i \in 1..Len(menuStack) : menuStack[i] # m
      BY <2>1, <2>3 DEF Open, IsOpen, Range
    <3>2. /\ Len(menuStack') = Len(menuStack) + 1 /\ menuStack'[Len(menuStack) + 1] = m
          /\ \A i \in 1..Len(menuStack) : menuStack'[i] = menuStack[i]
      BY <2>1, <3>1
    <3> QED BY <1>2, <2>1, <3>1, <3>2 DEF EachMenuOnce
  <2>4. ASSUME NEW i \in 1..Count, Close(i) PROVE EachMenuOnce'
    BY <1>2, <2>1, <2>4, RemoveAtKeepsOnce DEF Close, Count
  <2>5. CASE Draw \/ Arm \/ ProcessEvent \/ RunTask \/ UNCHANGED vars
    <3>1. UNCHANGED menuStack
      BY <2>5 DEF Draw, BeginDraw, DrawSlot, EndDraw, Arm, ProcessEvent, RunTask, vars
    <3> QED BY <2>2, <3>1
  <2> QED BY <1>2, <2>3, <2>4, <2>5 DEF Next
<1> QED BY <1>1, <1>2, Invariance, PTL DEF Spec

\* The slot of a menu and its turn in the draw, as ProducersBeforeMist has them.
SlotOf(m) == CHOOSE i \in DOMAIN menuStack : menuStack[i] = m
TurnOf(m) == CHOOSE n \in DOMAIN drawn : menuStack[drawn[n] + 1] = m

LEMMA SlotIs ==
  ASSUME menuStack \in Seq(Menu), EachMenuOnce, NEW i \in 1..Len(menuStack)
  PROVE  SlotOf(menuStack[i]) = i
<1>1. DOMAIN menuStack = 1..Len(menuStack)
  OBVIOUS
<1> QED BY <1>1 DEF SlotOf, EachMenuOnce

\* After the loop: the menu at slot k has the turn at which k is selected.
LEMMA TurnIs ==
  ASSUME DrawInv, EachMenuOnce, at = Count, NEW i \in start..(Count - 1)
  PROVE  LET k == SelectRenderSlot(Count, i, StackRoles)
         IN  /\ i - start + 1 \in DOMAIN drawn /\ drawn[i - start + 1] = k
             /\ k \in 0..(Count - 1)
             /\ TurnOf(menuStack[k + 1]) = i - start + 1
<1> DEFINE k == SelectRenderSlot(Count, i, StackRoles)
           n == i - start + 1
<1>1. /\ Count \in Nat /\ Count = Len(menuStack)
      /\ StackRoles \in [0..(Count - 1) -> Roles] /\ drawn \in Seq(Nat) /\ at # Idle
  BY RolesTyped, MenuCountAssumption DEF DrawInv, Idle, Count
<1>2. /\ start \in 0..(Count - 1) /\ Len(drawn) = Count - start
      /\ \A j \in 1..Len(drawn) : drawn[j] = SelectRenderSlot(Count, start + j - 1, StackRoles)
  BY <1>1 DEF DrawInv
<1>3. /\ DOMAIN drawn = 1..Len(drawn) /\ n \in 1..Len(drawn) /\ start + n - 1 = i
  BY <1>1, <1>2
<1>4. drawn[n] = k
  BY <1>2, <1>3
<1>5. /\ \A j \in 0..(Count - 1) : SelectRenderSlot(Count, j, StackRoles) \in 0..(Count - 1)
      /\ \A j, l \in 0..(Count - 1) :
           SelectRenderSlot(Count, j, StackRoles) = SelectRenderSlot(Count, l, StackRoles) => j = l
  BY <1>1, EverySlotOnce
<1>6. k \in 0..(Count - 1)
  BY <1>2, <1>5
<1>7. ASSUME NEW j \in DOMAIN drawn, menuStack[drawn[j] + 1] = menuStack[k + 1] PROVE j = n
  <2>1. start + j - 1 \in 0..(Count - 1) /\ drawn[j] = SelectRenderSlot(Count, start + j - 1, StackRoles)
    BY <1>1, <1>2, <1>3
  <2>2. drawn[j] \in 0..(Count - 1)
    BY <1>5, <2>1
  <2>3. drawn[j] = k
    BY <1>1, <1>6, <1>7, <2>2 DEF EachMenuOnce
  <2>4. start + j - 1 = i
    BY <1>2, <1>5, <2>1, <2>3
  <2> QED BY <1>2, <1>3, <2>4
<1> HIDE DEF k, n
<1>8. TurnOf(menuStack[k + 1]) = n
  BY <1>3, <1>4, <1>7 DEF TurnOf
<1> QED BY <1>3, <1>4, <1>6, <1>8 DEF k, n

\* A menu that must not be moved keeps its turn.
LEMMA BlockedKeepTurn ==
  ASSUME DrawInv, EachMenuOnce, at = Count, NEW n \in DOMAIN drawn,
         Classify(menuStack[drawn[n] + 1]) \in {"blocked", "main"}
  PROVE  TurnOf(menuStack[drawn[n] + 1]) = SlotOf(menuStack[drawn[n] + 1]) - start
<1>1. /\ Count \in Nat /\ Count = Len(menuStack) /\ menuStack \in Seq(Menu)
      /\ StackRoles \in [0..(Count - 1) -> Roles] /\ drawn \in Seq(Nat) /\ at # Idle
      /\ \A i \in 0..(Count - 1) : StackRoles[i] = Classify(menuStack[i + 1])
  BY RolesTyped, MenuCountAssumption DEF DrawInv, Idle, Count
<1> DEFINE i == start + n - 1
           k == SelectRenderSlot(Count, i, StackRoles)
<1>2. /\ start \in 0..(Count - 1) /\ n \in 1..(Count - start)
  BY <1>1 DEF DrawInv
<1>3. i \in start..(Count - 1) /\ i \in 0..(Count - 1) /\ i - start + 1 = n
  BY <1>1, <1>2
<1>4. drawn[n] = k /\ k \in 0..(Count - 1) /\ TurnOf(menuStack[k + 1]) = n
  BY <1>3, TurnIs
<1>5. StackRoles[k] \in {"blocked", "main"}
  BY <1>1, <1>4
<1>6. k = i
  <2>1. ASSUME NEW w \in Windows(StackRoles), k = Rotate(w, i) PROVE k = i
    <3>1. /\ w[1] \in 0..(Count - 1) /\ w[2] \in 0..(Count - 1) /\ w[1] < w[2]
          /\ StackRoles[w[1]] = "mist"
          /\ \A j \in (w[1] + 1)..w[2] : StackRoles[j] \in {"projected", "messageBox"}
      BY <1>1, WindowBounds
    <3>2. ~(k \in w[1]..w[2])
      BY <1>5, <3>1
    <3> QED BY <1>3, <2>1, <3>1, <3>2 DEF Rotate
  <2> QED BY <1>1, <1>3, <2>1, SelectCases
<1> HIDE DEF k
<1>7. SlotOf(menuStack[k + 1]) = k + 1
  BY <1>1, <1>4, SlotIs
<1> QED BY <1>2, <1>4, <1>6, <1>7

\* What a turn has drawn.
LEMMA DrawnIs ==
  ASSUME DrawInv, at = Count, NEW n \in DOMAIN drawn
  PROVE  /\ start + n - 1 \in start..(Count - 1) /\ start + n - 1 \in 0..(Count - 1)
         /\ drawn[n] = SelectRenderSlot(Count, start + n - 1, StackRoles)
         /\ drawn[n] \in 0..(Count - 1)
<1>1. /\ Count \in Nat /\ StackRoles \in [0..(Count - 1) -> Roles] /\ drawn \in Seq(Nat)
      /\ at # Idle
  BY RolesTyped, MenuCountAssumption DEF DrawInv, Idle
<1>2. /\ start \in 0..(Count - 1) /\ Len(drawn) = Count - start
      /\ \A j \in 1..Len(drawn) : drawn[j] = SelectRenderSlot(Count, start + j - 1, StackRoles)
  BY <1>1 DEF DrawInv
<1>3. /\ n \in 1..Len(drawn)
      /\ start + n - 1 \in start..(Count - 1) /\ start + n - 1 \in 0..(Count - 1)
  BY <1>1, <1>2
<1>4. drawn[n] = SelectRenderSlot(Count, start + n - 1, StackRoles)
  BY <1>2, <1>3
<1>5. SelectRenderSlot(Count, start + n - 1, StackRoles) \in 0..(Count - 1)
  BY <1>1, <1>3, EverySlotOnce
<1> QED BY <1>3, <1>4, <1>5

\* Main, mist menu and message box in the stack, nothing that must not be moved
\* between the last two: the slots of these are rotated.
LEMMA OneWindow ==
  ASSUME menuStack \in Seq(Menu), EachMenuOnce,
         NEW a \in 1..Len(menuStack), NEW b \in 1..Len(menuStack), NEW c \in 1..Len(menuStack),
         menuStack[a] = "Main", menuStack[b] = "Mist", menuStack[c] = "MessageBox", a < b, b < c,
         \A i \in b..c : Classify(menuStack[i]) # "blocked"
  PROVE  Windows(StackRoles) = {<<b - 1, c - 1>>}
<1>1. /\ Count \in Nat /\ Count = Len(menuStack)
      /\ StackRoles \in [0..(Count - 1) -> Roles]
      /\ \A i \in 0..(Count - 1) : StackRoles[i] = Classify(menuStack[i + 1])
  BY RolesTyped DEF Count
<1>2. \A i \in 1..Count :
        /\ Classify(menuStack[i]) = "main" <=> i = a
        /\ Classify(menuStack[i]) = "mist" <=> i = b
        /\ Classify(menuStack[i]) = "messageBox" <=> i = c
  <2>1. Classify(menuStack[c]) # "blocked"
    OBVIOUS
  <2>2. ASSUME NEW i \in 1..Count
        PROVE  /\ menuStack[i] = "Main" <=> i = a
               /\ menuStack[i] = "Mist" <=> i = b
               /\ menuStack[i] = "MessageBox" <=> i = c
    BY <1>1 DEF EachMenuOnce
  <2>3. ASSUME NEW i \in 1..Count, Classify(menuStack[i]) = "messageBox"
        PROVE  menuStack[i] = "MessageBox"
    BY <2>3 DEF Classify
  <2> QED BY <2>1, <2>2, <2>3 DEF Classify
<1>3. \A i \in 0..(Count - 1) :
        /\ StackRoles[i] = "main" <=> i = a - 1
        /\ StackRoles[i] = "mist" <=> i = b - 1
        /\ StackRoles[i] = "messageBox" <=> i = c - 1
  <2> SUFFICES ASSUME NEW i \in 0..(Count - 1)
               PROVE  /\ StackRoles[i] = "main" <=> i = a - 1
                      /\ StackRoles[i] = "mist" <=> i = b - 1
                      /\ StackRoles[i] = "messageBox" <=> i = c - 1
    OBVIOUS
  <2>1. i + 1 \in 1..Count /\ StackRoles[i] = Classify(menuStack[i + 1])
    BY <1>1
  <2>2. /\ Classify(menuStack[i + 1]) = "main" <=> i + 1 = a
        /\ Classify(menuStack[i + 1]) = "mist" <=> i + 1 = b
        /\ Classify(menuStack[i + 1]) = "messageBox" <=> i + 1 = c
    BY <1>2, <2>1
  <2> QED BY <1>1, <2>1, <2>2
<1>4. /\ a - 1 \in 0..(Count - 1) /\ b - 1 \in 0..(Count - 1) /\ c - 1 \in 0..(Count - 1)
      /\ a - 1 < b - 1 /\ b - 1 < c - 1
  BY <1>1
<1>5. /\ With(StackRoles, "main") = {a - 1} /\ With(StackRoles, "mist") = {b - 1}
      /\ With(StackRoles, "messageBox") = {c - 1} /\ DOMAIN StackRoles = 0..(Count - 1)
  BY <1>1, <1>3, <1>4 DEF With
<1>6. \A i \in ((b - 1) + 1)..(c - 1) : StackRoles[i] \in {"projected", "messageBox"}
  <2> SUFFICES ASSUME NEW i \in ((b - 1) + 1)..(c - 1)
               PROVE  StackRoles[i] \in {"projected", "messageBox"}
    OBVIOUS
  <2>1. i \in 0..(Count - 1) /\ i + 1 \in b..c /\ i # a - 1 /\ i # b - 1
    BY <1>1, <1>4
  <2>2. StackRoles[i] # "blocked"
    BY <1>1, <2>1
  <2>3. StackRoles[i] \in Roles
    BY <1>1, <2>1
  <2> QED BY <1>3, <2>1, <2>2, <2>3 DEF Roles
<1>7. Ordered(StackRoles, b - 1, c - 1)
  BY <1>4, <1>5 DEF Ordered
<1>8. <<b - 1, c - 1>> \in Windows(StackRoles)
  BY <1>4, <1>5, <1>6, <1>7 DEF Windows
<1>9. ASSUME NEW w \in Windows(StackRoles) PROVE w = <<b - 1, c - 1>>
  <2>1. /\ w \in (0..(Count - 1)) \X (0..(Count - 1))
        /\ With(StackRoles, "mist") = {w[1]} /\ With(StackRoles, "messageBox") = {w[2]}
    BY <1>5 DEF Windows, Ordered
  <2>2. w[1] = b - 1 /\ w[2] = c - 1
    BY <1>5, <2>1
  <2> QED BY <2>1, <2>2
<1> QED BY <1>8, <1>9

LEMMA MistAfterProducers ==
  ASSUME DrawInv, EachMenuOnce, at = Count,
         NEW a \in 1..Len(menuStack), NEW b \in 1..Len(menuStack), NEW c \in 1..Len(menuStack),
         menuStack[a] = "Main", menuStack[b] = "Mist", menuStack[c] = "MessageBox", a < b, b < c,
         \A i \in b..c : Classify(menuStack[i]) # "blocked",
         \E n \in DOMAIN drawn : menuStack[drawn[n] + 1] = "Mist",
         NEW i \in (b + 1)..c
  PROVE  TurnOf(menuStack[i]) < TurnOf("Mist")
<1>1. /\ Count \in Nat /\ Count = Len(menuStack) /\ menuStack \in Seq(Menu)
      /\ StackRoles \in [0..(Count - 1) -> Roles] /\ drawn \in Seq(Nat) /\ at # Idle
      /\ Count <= MaxMenuCount /\ MaxMenuCount \in Nat
      /\ \A j \in 0..(Count - 1) : StackRoles[j] = Classify(menuStack[j + 1])
  BY RolesTyped, MenuCountAssumption DEF DrawInv, Idle, Count
<1>2. /\ start \in 0..(Count - 1) /\ Len(drawn) = Count - start
      /\ start = 0 \/ StackRoles[start] \notin {"projected", "messageBox"}
      /\ \A j \in 1..Len(drawn) : drawn[j] = SelectRenderSlot(Count, start + j - 1, StackRoles)
  BY <1>1 DEF DrawInv
<1> DEFINE w == <<b - 1, c - 1>>
<1>3. Windows(StackRoles) = {w}
  BY <1>1, OneWindow
<1>4. ASSUME NEW j \in 0..(Count - 1)
      PROVE  SelectRenderSlot(Count, j, StackRoles) =
               IF b - 1 <= j /\ j < c - 1 THEN j + 1 ELSE IF j = c - 1 THEN b - 1 ELSE j
  <2>1. ~(Count > MaxMenuCount) /\ ~(j >= Count) /\ Windows(StackRoles) # {}
    BY <1>1, <1>3
  <2>2. (CHOOSE v \in Windows(StackRoles) : TRUE) = w
    BY <1>3
  <2>3. SelectRenderSlot(Count, j, StackRoles) = Rotate(w, j)
    BY <2>1, <2>2, Zenon DEF SelectRenderSlot
  <2> QED BY <2>3 DEF Rotate
<1>5. w[1] = b - 1 /\ w[2] = c - 1 /\ w \in Windows(StackRoles)
  BY <1>3
<1>6. start <= b - 1
  <2>1. start <= b - 1 \/ c - 1 < start
    <3> HIDE DEF w
    <3>1. \A j \in (w[1] + 1)..w[2] : StackRoles[j] \in {"projected", "messageBox"}
      BY <1>1, <1>5, WindowBounds
    <3>2. \A j \in b..(c - 1) : StackRoles[j] \in {"projected", "messageBox"}
      BY <1>5, <3>1
    <3> QED BY <1>1, <1>2, <3>2
  <2>2. PICK n \in DOMAIN drawn : menuStack[drawn[n] + 1] = "Mist"
    OBVIOUS
  <2>3. /\ start + n - 1 \in start..(Count - 1) /\ start + n - 1 \in 0..(Count - 1)
        /\ drawn[n] = SelectRenderSlot(Count, start + n - 1, StackRoles)
        /\ drawn[n] \in 0..(Count - 1)
    BY DrawnIs
  <2>4. drawn[n] = b - 1
    <3>1. drawn[n] + 1 \in 1..Len(menuStack) /\ menuStack[drawn[n] + 1] = menuStack[b]
      BY <1>1, <2>2, <2>3
    <3>2. drawn[n] + 1 = b
      BY <3>1 DEF EachMenuOnce
    <3> QED BY <2>3, <3>2
  <2>5. ~(c - 1 < start)
    <3> DEFINE x == start + n - 1
    <3>1. x \in 0..(Count - 1) /\ SelectRenderSlot(Count, x, StackRoles) = b - 1 /\ x >= start
      BY <1>2, <2>3, <2>4
    <3> HIDE DEF x
    <3>2. b - 1 = IF b - 1 <= x /\ x < c - 1 THEN x + 1 ELSE IF x = c - 1 THEN b - 1 ELSE x
      BY <1>4, <3>1
    <3> QED BY <1>1, <1>2, <3>1, <3>2
  <2> QED BY <2>1, <2>5
<1>7. TurnOf("Mist") = c - start
  <2>1. c - 1 \in start..(Count - 1) /\ c - 1 \in 0..(Count - 1)
    BY <1>1, <1>2, <1>6
  <2>2. SelectRenderSlot(Count, c - 1, StackRoles) = b - 1
    BY <1>4, <2>1
  <2>3. TurnOf(menuStack[(b - 1) + 1]) = (c - 1) - start + 1
    BY <2>1, <2>2, TurnIs
  <2>4. (b - 1) + 1 = b /\ (c - 1) - start + 1 = c - start
    BY <1>2
  <2> QED BY <2>3, <2>4
<1>8. TurnOf(menuStack[i]) = i - 1 - start
  <2>1. /\ i - 2 \in start..(Count - 1) /\ i - 2 \in 0..(Count - 1)
        /\ b - 1 <= i - 2 /\ i - 2 < c - 1 /\ (i - 2) + 1 = i - 1
    BY <1>1, <1>2, <1>6
  <2>2. SelectRenderSlot(Count, i - 2, StackRoles) = i - 1
    BY <1>4, <2>1
  <2>3. TurnOf(menuStack[(i - 1) + 1]) = (i - 2) - start + 1
    BY <2>1, <2>2, TurnIs
  <2>4. (i - 1) + 1 = i /\ (i - 2) - start + 1 = i - 1 - start
    BY <1>2
  <2> QED BY <2>3, <2>4
<1> QED BY <1>2, <1>7, <1>8

\* SelectRenderSlot in the draw loop: the message box and the projected menus
\* are drawn before the mist menu that shows them, and no menu that must not be
\* moved changes its turn, whatever else is in the stack and wherever the loop
\* begins.
THEOREM MistShowsProducers == Spec => []ProducersBeforeMist
<1>1. ASSUME IInv, EachMenuOnce PROVE ProducersBeforeMist
  <2>1. DrawInv /\ menuStack \in Seq(Menu) /\ DOMAIN menuStack = 1..Len(menuStack)
    BY <1>1 DEF IInv, DrawInv
  <2>2. ASSUME at = Count, NEW m \in Range(menuStack),
               \E n \in DOMAIN drawn : menuStack[drawn[n] + 1] = m,
               Classify(m) \in {"blocked", "main"}
        PROVE  TurnOf(m) = SlotOf(m) - start
    BY <1>1, <2>1, <2>2, BlockedKeepTurn
  <2>3. ASSUME at = Count, Count > 0, IsOpen("Main"),
               \E n \in DOMAIN drawn : menuStack[drawn[n] + 1] = "Mist",
               \E n \in DOMAIN drawn : menuStack[drawn[n] + 1] = "MessageBox",
               SlotOf("Main") < SlotOf("Mist"), SlotOf("Mist") < SlotOf("MessageBox"),
               \A i \in SlotOf("Mist")..SlotOf("MessageBox") : Classify(menuStack[i]) # "blocked",
               NEW i \in (SlotOf("Mist") + 1)..SlotOf("MessageBox")
        PROVE  TurnOf(menuStack[i]) < TurnOf("Mist")
    <3>1. ASSUME NEW n \in DOMAIN drawn PROVE drawn[n] + 1 \in DOMAIN menuStack
      <4>1. Count \in Nat /\ Count = Len(menuStack) /\ drawn[n] \in 0..(Count - 1)
        BY <2>1, <2>3, RolesTyped, DrawnIs DEF Count
      <4> QED BY <2>1, <4>1
    <3>2. /\ \E j \in DOMAIN menuStack : menuStack[j] = "Main"
          /\ \E j \in DOMAIN menuStack : menuStack[j] = "Mist"
          /\ \E j \in DOMAIN menuStack : menuStack[j] = "MessageBox"
      BY <2>3, <3>1 DEF IsOpen, Range
    <3>3. /\ SlotOf("Main") \in DOMAIN menuStack /\ menuStack[SlotOf("Main")] = "Main"
          /\ SlotOf("Mist") \in DOMAIN menuStack /\ menuStack[SlotOf("Mist")] = "Mist"
          /\ SlotOf("MessageBox") \in DOMAIN menuStack
          /\ menuStack[SlotOf("MessageBox")] = "MessageBox"
      BY <3>2 DEF SlotOf
    <3> QED BY <1>1, <2>1, <2>3, <3>3, MistAfterProducers
  <2> QED BY <2>2, <2>3 DEF ProducersBeforeMist, TurnOf, SlotOf
<1> QED BY <1>1, Invariance, OnceInvariance, PTL
=============================================================================
