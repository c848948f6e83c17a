--------------------------- MODULE MCDeviceMessages ---------------------------
(***************************************************************************)
(* A small instance of DeviceMessages.                                     *)
(***************************************************************************)
EXTENDS DeviceMessages, SequencesExt

Chars(from, n) == [i \in 1..n |-> from + i]

(* A number, a boolean, a string as long as its name, which is that of the *)
(* number, and one that is not.                                            *)
Level == [name |-> Chars(100, 1), type |-> "integer", value |-> <<18, 513>>]
On == [name |-> Chars(110, 2), type |-> "boolean", value |-> <<0, 7>>]
Room == [name |-> Level.name, type |-> "string", value |-> Chars(60, 1)]
Note == [name |-> Chars(90, 2), type |-> "string", value |-> Chars(70, 5)]

AsList(cs) == FoldLeft(LAMBDA list, c : Add(list, c), NewList, cs)

(* An action with arguments, one declared with none.                       *)
Dim == [name |-> Chars(65, 3), description |-> Null, args |-> AsList(<<Level, On, Note>>)]
Say == [name |-> Chars(75, 4), description |-> 7, args |-> NoList]
Alarm == [name |-> Chars(85, 6), components |-> AsList(<<Level, Room>>)]

SomeComponents == {Level, On, Room, Note}
SomeActions == {Dim, Say}
SomeEvents == {Alarm}
Blank == [model |-> Null, manufacturer |-> Null, kind |-> Null, serial |-> Null]
SomeInfos == {[Blank EXCEPT !.manufacturer = 300], [Blank EXCEPT !.model = 4],
              [model |-> 4, manufacturer |-> 30, kind |-> 9, serial |-> 12]}

User == Chars(96, 5)
AUuid == [i \in 1..36 |-> IF i \in {9, 14, 19, 24} THEN Dash ELSE (i * 7) % 16]
ATime == <<21845, 4660>>
AnId == Chars(0, 12)
TheirId == Chars(200, 12)

(* Payloads: none, a short one, and the longest for which the integrity    *)
(* attribute still starts within 255 bytes; a longer one.                   *)
ShortTexts == {NoText, Chars(30, 10), Chars(1, 174)}
LongTexts == {Chars(1, 177)}
SomePayloads == {NoComponents, << >>, <<Level, Room>>}
SomeNames == {Alarm.name, Chars(86, 6)}

ActionRequest(name, args) ==
  [method |-> M_ACTION, class |-> CL_REQUEST, trId |-> TheirId, name |-> name, args |-> args,
   complete |-> TRUE,
   attrs |-> <<Attr(ATTR_NAME, name), Attr(ATTR_ARGUMENTS, Layout(args))>>]
Bare(method, class, attrs) ==
  [method |-> method, class |-> class, trId |-> TheirId, name |-> << >>, args |-> << >>,
   complete |-> FALSE, attrs |-> attrs, code |-> NotThere, time |-> NotThere]

(* Actions with good arguments and with others, a status request, an error *)
(* with and without what it tells, and methods the device drops.           *)
SomeRequests ==
  {ActionRequest(Dim.name, <<Note, Level, On>>),
   ActionRequest(Dim.name, <<On, [Level EXCEPT !.name = Chars(40, 2)]>>),
   ActionRequest(Say.name, <<Room, Note>>),
   ActionRequest(Say.name, <<Level>>),
   ActionRequest(Chars(1, 2), << >>),
   [Bare(M_ACTION, CL_REQUEST, <<Attr(ATTR_NAME, Dim.name)>>) EXCEPT !.name = Dim.name],
   Bare(M_STATUS_REQUEST, CL_REQUEST, << >>),
   Bare(M_STATUS_REQUEST, CL_INDICATION, << >>),
   Bare(M_KEEP_ALIVE, CL_SUCCESS, << >>),
   Bare(M_KEEP_ALIVE, CL_ERROR, << >>),
   [Bare(M_KEEP_ALIVE, CL_ERROR,
         <<Attr(ATTR_ERROR_CODE, <<0, 0, 6, 5>> \o Chars(64, 9)),
           Attr(ATTR_SERVER_TIME, U32(<<21845, 65>>))>>)
      EXCEPT !.code = 605, !.time = <<21845, 65>>]}
=============================================================================
