--------------------------- MODULE MCClientInput ----------------------------
(* One client with a message of each kind; a long cut text is larger than   *)
(* the buffer.                                                              *)
EXTENDS ClientInput

Clipboard(a, n, c) == [type |-> "clipboard", len |-> n, action |-> a, caps |-> c]
TheDisplays == {7, 8}
OneDisplay == [w |-> 4, h |-> 4,
  displays |-> << [id |-> 7, x |-> 0, y |-> 0, w |-> 4, h |-> 4] >>]
TwoDisplays == [w |-> 4, h |-> 4,
  displays |-> << [id |-> 7, x |-> 0, y |-> 0, w |-> 2, h |-> 4],
                  [id |-> 8, x |-> 2, y |-> 0, w |-> 2, h |-> 4] >>]

NotifyOnly == [provide |-> FALSE, notify |-> TRUE, request |-> FALSE, max |-> 0]
ShortTexts == [provide |-> TRUE, notify |-> TRUE, request |-> TRUE, max |-> 1]

Key == [type |-> "key", len |-> 0]
CutText(n) == [type |-> "cut_text", len |-> n]
Ntp(last) == [type |-> "ntp", len |-> 0, last |-> last]
Fence(n, flags) == [type |-> "fence", len |-> n, flags |-> flags]
Encodings(clip) == [type |-> "encodings", len |-> 1, clip |-> clip]

(* Fences, and messages behind them. *)
Fences == { Key, CutText(5), Fence(1, {"before", "after"}), Fence(0, {"sync", "after"}) }

(* A message of each kind. *)
Mixture ==
  { Key, Ntp(FALSE), Ntp(TRUE), CutText(1), CutText(5), CutText(7), [type |-> "pointer", len |-> 0],
    [type |-> "pointer", len |-> 1], [type |-> "bad", len |-> 0], Encodings(TRUE), Clipboard("provide", 5, NotifyOnly),
    [type |-> "desktop_size", len |-> 1, layout |-> OneDisplay],
    [type |-> "desktop_size", len |-> 2, layout |-> TwoDisplays] }

(* The clipboard, in both directions. *)
Clipboards ==
  { Encodings(TRUE), Encodings(FALSE),
    Clipboard("caps", 1, ShortTexts), Clipboard("caps", 1, NotifyOnly),
    Clipboard("request", 0, NotifyOnly), Clipboard("peek", 0, NotifyOnly),
    Clipboard("notify", 0, NotifyOnly) }

TheSessions ==
  { [menu |-> Fences, copies |-> 0, updates |-> TRUE],
    [menu |-> Mixture, copies |-> 0, updates |-> FALSE],
    [menu |-> Clipboards, copies |-> 2, updates |-> FALSE] }
=============================================================================
