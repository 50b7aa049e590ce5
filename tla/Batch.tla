------------------------------- MODULE Batch -------------------------------
(***************************************************************************)
(* The batch of GUI elements and characters of one frame: begin,           *)
(* addGUIElements, addText and end of VK::Manager (VKManager.h) with       *)
(* Font::draw2D and BufferObject::update.  A call records its draws at     *)
(* once, while the data they will read is only copied to the host's arrays;*)
(* end copies those to the buffers of the device, before the commands are  *)
(* submitted.                                                              *)
(*                                                                         *)
(* Each element of an array is the number of the call that wrote it, 0 if  *)
(* an earlier frame did.  The code writes behind the counters without      *)
(* comparing them with the size of the arrays: Capacity is a bound of the  *)
(* model.                                                                  *)
(***************************************************************************)
EXTENDS Naturals

CONSTANTS
  GUITechniques,  \* the techniques that draw GUI elements
  Capacity,       \* bound: elements in an array
  MaxCalls        \* bound: calls of addGUIElements and addText in a frame

ASSUME BatchAssumption == /\ "Text2D" \notin GUITechniques /\ "NULL" \notin GUITechniques
                          /\ Capacity \in Nat /\ MaxCalls \in Nat

VARIABLES
  open,           \* between begin and end
  calls,          \* calls made since begin
  n,              \* nGUIElements and nTextElements
  pLastTechnique, \* the technique bound last, as the Manager remembers it
  bound,          \* the pipeline that is bound in the command buffer
  host,           \* gui and text of the Manager
  device,         \* the memory of guiBuffer and textBuffer
  draws           \* the draws recorded in the command buffer
batch == <<open, calls, n, pLastTechnique, bound, host, device, draws>>

Arrays == {"gui", "text"}
Techniques == GUITechniques \cup {"Text2D"}
Slots == 0 .. Capacity - 1
Earlier == [a \in Arrays |-> [i \in Slots |-> 0]]

\* Mutant: the technique of the last frame is remembered.
LastOfOldFrame == pLastTechnique

LastAtBegin == "NULL"

\* begin, for a command buffer in which nothing is bound yet.
Begin ==
  /\ ~open /\ calls = 0
  /\ open' = TRUE /\ n' = [a \in Arrays |-> 0] /\ pLastTechnique' = LastAtBegin
  /\ UNCHANGED <<calls, bound, host, device, draws>>

\* A call that draws k instances with technique t from array a.  draw2D issues one
\* draw for each character with an outline; they are one here.
Add(a, t, k) ==
  /\ open /\ calls < MaxCalls /\ n[a] + k <= Capacity
  /\ calls' = calls + 1
  /\ pLastTechnique' = t
  /\ bound' = IF pLastTechnique # t THEN t ELSE bound
  /\ draws' = draws \cup {[array |-> a, technique |-> t, bound |-> bound',
                           first |-> n[a], count |-> k, call |-> calls + 1]}
  /\ host' = [host EXCEPT ![a] = [i \in Slots |-> IF n[a] <= i /\ i < n[a] + k THEN calls + 1 ELSE @[i]]]
  /\ n' = [n EXCEPT ![a] = @ + k]
  /\ UNCHANGED <<open, device>>

AddGUIElements(t, instances) == Add("gui", t, instances)
\* A text may have no character with an outline.
AddText(characters) == Add("text", "Text2D", characters)

Calls == \/ \E t \in GUITechniques, k \in 1 .. Capacity : AddGUIElements(t, k)
         \/ \E k \in 0 .. Capacity : AddText(k)

\* Mutant: the last element is left out.
UploadedButLast(a, i) == i + 1 < n[a]

\* end: each buffer is updated as far as its counter.
Uploaded(a, i) == i < n[a]
End ==
  /\ open
  /\ open' = FALSE
  /\ device' = [a \in Arrays |-> [i \in Slots |-> IF Uploaded(a, i) THEN host[a][i] ELSE device[a][i]]]
  /\ UNCHANGED <<calls, n, pLastTechnique, bound, host, draws>>

\* The commands were executed and their buffer is freed; the frame is an earlier one.
Freed ==
  /\ ~open
  /\ calls' = 0 /\ bound' = "NULL" /\ draws' = {}
  /\ host' = Earlier /\ device' = Earlier
  /\ UNCHANGED <<open, n, pLastTechnique>>

BatchInit ==
  /\ open = FALSE /\ calls = 0 /\ n = [a \in Arrays |-> 0]
  /\ pLastTechnique = "NULL" /\ bound = "NULL"
  /\ host = Earlier /\ device = Earlier /\ draws = {}
BatchNext == Begin \/ Calls \/ End \/ Freed
BatchSpec == BatchInit /\ [][BatchNext]_batch

---------------------------------------------------------------------------
Draws == [array : Arrays, technique : Techniques, bound : Techniques \cup {"NULL"},
          first : Nat, count : Nat, call : Nat]

BatchTypeOK ==
  /\ open \in BOOLEAN /\ calls \in Nat /\ n \in [Arrays -> 0 .. Capacity]
  /\ pLastTechnique \in Techniques \cup {"NULL"} /\ bound \in Techniques \cup {"NULL"}
  /\ host \in [Arrays -> [Slots -> Nat]] /\ device \in [Arrays -> [Slots -> Nat]]
  /\ draws \subseteq Draws

\* Once the batch is ended, and the commands go to the device, every draw has the
\* pipeline of its own technique and every instance it draws has the data of its
\* own call, of this frame: the draws were recorded before the data was there, and a
\* pipeline is bound only when the technique changes.
DrawsAreExact ==
  ~open => \A d \in draws :
             /\ d.bound = d.technique
             /\ \A i \in d.first .. d.first + d.count - 1 : device[d.array][i] = d.call
===========================================================================
