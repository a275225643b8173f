\* The four menus and one more, in every order.
SPECIFICATION Spec
CONSTANTS
  MaxMenuCount = 5
  Other = {hud}
  MaxTopmost = 1
  MaxEvents = 2
INVARIANT EachMenuDrawnOnce ProducersBeforeMist OnePopup NoChanceMissed
