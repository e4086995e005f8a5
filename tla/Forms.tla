--------------------------------- MODULE Forms ---------------------------------
(***************************************************************************)
(* Buttons, menus and forms: which element of a message a press selects    *)
(* (blockaction.go, render/actions.go), what value it carries              *)
(* (elementvalue.go), and the state a form is submitted with (viewform.go, *)
(* workflow_formstate.go).  A value given by the caller, and a label or a  *)
(* value of an option, is a text: the sequence of its parts between commas,*)
(* each comma followed by one blank.  What has no comma is one word.  An   *)
(* element or a form that cannot be answered gives Refusal, and nothing is *)
(* sent.                                                                   *)
(***************************************************************************)
EXTENDS Naturals, Sequences, SequencesExt

CONSTANT Folded  \* [words -> words], as EqualFold and TrimSpace compare them

None == "none"
Refusal == [refused |-> TRUE]
Accepted(state) == [state |-> state]
SameWord(a, b) == Folded[a] = Folded[b]
SameText(a, b) == Len(a) = Len(b) /\ \A n \in DOMAIN a : SameWord(a[n], b[n])

(* An element as Slack describes it: its initial value is an entry, its own *)
(* label a word.                                                            *)
Option(label, value) == [label |-> label, value |-> value]
Element(type, action, label, link, options, initial) ==
  [type |-> type, action |-> action, label |-> label, link |-> link,
   options |-> options, initial |-> initial]

(* A state entry, under the key of its type; NoEntry has no value.  It      *)
(* holds a text, or a sequence of options, ids or documents.                *)
Entry(key, held) == [key |-> key, held |-> held]
NoEntry == Entry("none", <<>>)
EntryHasValue(entry) == entry.held # <<>>

-----------------------------------------------------------------------------
(* Values.                                                                  *)
TextInputs == {"plain_text_input", "number_input", "email_text_input", "url_text_input"}
OptionMenus == {"static_select", "radio_buttons", "overflow"}
MultiMenus == {"checkboxes", "multi_static_select"}
IdSelectKeys ==
  [users_select |-> "selected_user", conversations_select |-> "selected_conversation",
   channels_select |-> "selected_channel", multi_users_select |-> "selected_users",
   multi_conversations_select |-> "selected_conversations",
   multi_channels_select |-> "selected_channels"]
MultiIdSelects == {"multi_users_select", "multi_conversations_select", "multi_channels_select"}

Matches(option, value) == option.value = value \/ SameText(option.label, value)

(* matchElementOption: the first option with that value or label.           *)
MatchElementOption(element, value) ==
  LET found == {n \in DOMAIN element.options : Matches(element.options[n], value)}
  IN IF found = {} THEN Refusal ELSE element.options[CHOOSE n \in found : \A k \in found : n <= k]

(* splitValues: every part that is not empty, as a text of its own.         *)
SplitValues(value) ==
  LET words == SelectSeq(value, LAMBDA word : word # "")
  IN [n \in DOMAIN words |-> <<words[n]>>]

(* idSelectEntry: ids, as many as the menu takes.                           *)
IdSelectEntry(element, value) ==
  LET ids == SplitValues(value)
  IN IF ids = <<>> \/ (Len(ids) > 1 /\ element.type \notin MultiIdSelects) THEN Refusal
     ELSE Entry(IdSelectKeys[element.type], ids)

(* A menu of several options takes them one by one, whatever commas a label *)
(* has.                                                                     *)
OptionsEntry(element, values) ==
  LET matched == [n \in DOMAIN values |-> MatchElementOption(element, values[n])]
  IN IF \E n \in DOMAIN values : matched[n] = Refusal THEN Refusal
     ELSE Entry("selected_options", matched)

(* A menu of one takes the value as it is.                                  *)
OptionEntry(element, value) ==
  LET matched == MatchElementOption(element, value)
  IN IF matched = Refusal THEN Refusal ELSE Entry("selected_option", <<matched>>)

(* time.Parse, by the one date and the one time used here.                  *)
IsDate(value) == value = <<"2026-01-02">>
IsTime(value) == value = <<"15:04">>

(* formStateEntry.                                                          *)
FormStateEntry(element, value) ==
  CASE element.type \in TextInputs -> Entry("value", value)
    [] element.type = "rich_text_input" -> Entry("rich_text_value", <<value>>)
    [] element.type \in OptionMenus -> OptionEntry(element, value)
    [] element.type \in MultiMenus -> OptionsEntry(element, SplitValues(value))
    [] element.type = "datepicker" /\ IsDate(value) -> Entry("selected_date", value)
    [] element.type = "timepicker" /\ IsTime(value) -> Entry("selected_time", value)
    [] element.type \in DOMAIN IdSelectKeys -> IdSelectEntry(element, value)
    [] OTHER -> Refusal

-----------------------------------------------------------------------------
(* Presses.  A block is an "actions" block of elements, or a "section" with *)
(* at most one.                                                             *)
Block(type, id, elements) == [type |-> type, id |-> id, elements |-> elements]

InteractiveElementTypes ==
  {"button", "overflow", "static_select", "external_select", "users_select",
   "conversations_select", "channels_select", "multi_static_select", "multi_external_select",
   "multi_users_select", "multi_conversations_select", "multi_channels_select",
   "datepicker", "timepicker", "datetimepicker", "radio_buttons", "checkboxes"}

(* InteractiveElements, as pairs <<block id, element>>.                     *)
InteractiveElements(blocks) ==
  LET Usable(element) == element.type \in InteractiveElementTypes /\ element.action # None
      Of(block) == IF block.type \notin {"actions", "section"} THEN <<>>
                   ELSE LET usable == SelectSeq(block.elements, Usable)
                        IN [n \in DOMAIN usable |-> <<block.id, usable[n]>>]
  IN FlattenSeq([n \in DOMAIN blocks |-> Of(blocks[n])])

Selector(label, action, block) == [label |-> label, action |-> action, block |-> block]

(* Seeded fault: the block of a selector is not looked at.                  *)
ElementMatchesAnywhere(found, sel) ==
  /\ sel.action # None => found[2].action = sel.action
  /\ sel.label # None => SameWord(found[2].label, sel.label) \/ found[2].action = sel.label

ElementMatches(found, sel) ==
  /\ sel.block # None => found[1] = sel.block
  /\ sel.action # None => found[2].action = sel.action
  /\ sel.label # None => SameWord(found[2].label, sel.label) \/ found[2].action = sel.label

(* SelectMessageAction: the one element the selector names, no link button. *)
SelectMessageAction(blocks, sel) ==
  LET matched == SelectSeq(InteractiveElements(blocks), LAMBDA found : ElementMatches(found, sel))
  IN IF sel.label = None /\ sel.action = None THEN Refusal
     ELSE IF Len(matched) # 1 THEN Refusal
     ELSE IF matched[1][2].link THEN Refusal ELSE matched[1]

(* CompactActionFor, DescribeElement: how a reader sees an element.         *)
CompactActionFor(found) ==
  [block |-> found[1], action |-> found[2].action, label |-> found[2].label,
   link |-> found[2].link, options |-> [n \in DOMAIN found[2].options |-> found[2].options[n].label]]

MessageActions(blocks) ==
  LET found == InteractiveElements(blocks)
  IN [n \in DOMAIN found |-> CompactActionFor(found[n])]

(* ActionChoice: what a press carries; NoEntry for a button.                *)
ActionChoice(found, value) ==
  CASE found[2].type = "button" -> IF value = <<>> THEN NoEntry ELSE Refusal
    [] value = <<>> -> Refusal
    [] OTHER -> FormStateEntry(found[2], value)

-----------------------------------------------------------------------------
(* Views.  An input block, with its live state; what a block without an     *)
(* address holds is not a field.                                            *)
Input(block, title, optional, element, live) ==
  [block |-> block, title |-> title, optional |-> optional, element |-> element, live |-> live]

Addressed(input) == input.block # None /\ input.element.action # None
ViewInputs(view) == SelectSeq(view, Addressed)

(* viewInputs' entry, initialEntry: the live value, or the initial one.     *)
CurrentEntry(input) == IF EntryHasValue(input.live) THEN input.live ELSE input.element.initial

(* entryDisplay: options by their labels, ids as they are, joined with ", ";*)
(* the rest as it is.                                                       *)
EntryDisplay(entry) ==
  CASE entry.key \in {"selected_option", "selected_options"} ->
         FlattenSeq([n \in DOMAIN entry.held |-> entry.held[n].label])
    [] entry.key \in {IdSelectKeys[type] : type \in DOMAIN IdSelectKeys} -> FlattenSeq(entry.held)
    [] entry.key = "rich_text_value" -> entry.held[1]
    [] OTHER -> entry.held

DescribeView(view) ==
  LET inputs == ViewInputs(view)
  IN [n \in DOMAIN inputs |->
       [title |-> inputs[n].title, type |-> inputs[n].element.type,
        required |-> ~inputs[n].optional, value |-> EntryDisplay(CurrentEntry(inputs[n])),
        options |-> [k \in DOMAIN inputs[n].element.options |-> inputs[n].element.options[k].label]]]

(* inputByTitle: the numbers of the inputs with that title.                 *)
InputByTitle(inputs, title) == {n \in DOMAIN inputs : SameWord(inputs[n].title, title)}

(* The entry of one input once the fields, a function from titles, are laid *)
(* over it.  Titles here differ by more than their case.                    *)
LaidOver(input, fields) ==
  LET named == {title \in DOMAIN fields : SameWord(title, input.title)}
  IN IF named = {} THEN CurrentEntry(input)
     ELSE FormStateEntry(input.element, fields[CHOOSE title \in named : TRUE])

(* buildViewState.                                                          *)
BuildViewState(view, fields) ==
  LET inputs == ViewInputs(view)
      entry == [n \in DOMAIN inputs |-> LaidOver(inputs[n], fields)]
      filled == {n \in DOMAIN inputs : entry[n] # Refusal /\ EntryHasValue(entry[n])}
  IN IF \E title \in DOMAIN fields : ~\E n \in DOMAIN inputs : InputByTitle(inputs, title) = {n}
     THEN Refusal
     ELSE IF \E n \in DOMAIN inputs : entry[n] = Refusal THEN Refusal
     ELSE IF \E n \in DOMAIN inputs \ filled : ~inputs[n].optional THEN Refusal
     ELSE Accepted({<<inputs[n].block, inputs[n].element.action, entry[n]>> : n \in filled})

-----------------------------------------------------------------------------
(* Workflow forms.  A schema is a sequence of [name, title, required]; the  *)
(* name is the action id of the field's input.                              *)
Field(name, title, required) == [name |-> name, title |-> title, required |-> required]

SchemaFieldByTitle(schema, title) ==
  LET found == {n \in DOMAIN schema : SameWord(schema[n].title, title)}
  IN IF found = {} THEN 0 ELSE CHOOSE n \in found : \A k \in found : n <= k

(* ValidateWorkflowFields finds nothing wrong.                              *)
ValidateWorkflowFields(fields, schema) ==
  LET supplied == {SchemaFieldByTitle(schema, title) : title \in DOMAIN fields}
      given == {schema[n].name : n \in supplied \ {0}}
  IN 0 \notin supplied /\ \A n \in DOMAIN schema : schema[n].required => schema[n].name \in given

(* indexFormBlocks: the last block with that action id.                     *)
FormBlock(view, name) ==
  LET found == {n \in DOMAIN view : Addressed(view[n]) /\ view[n].element.action = name}
  IN IF found = {} THEN 0 ELSE CHOOSE n \in found : \A k \in found : k <= n

BuildFormState(view, schema, fields) ==
  LET Name(title) == schema[SchemaFieldByTitle(schema, title)].name
      At(title) == FormBlock(view, Name(title))
  IN IF \E title \in DOMAIN fields : SchemaFieldByTitle(schema, title) = 0 THEN Refusal
     ELSE IF \E title \in DOMAIN fields : At(title) = 0 THEN Refusal
     ELSE IF \E title \in DOMAIN fields : FormStateEntry(view[At(title)].element, fields[title]) = Refusal
     THEN Refusal
     ELSE Accepted({<<view[At(title)].block, Name(title),
                      FormStateEntry(view[At(title)].element, fields[title])>> : title \in DOMAIN fields})

(* rejectedFields: the titles of the blocks that Slack names.               *)
RejectedFields(view, blocks) ==
  {IF \E n \in DOMAIN view : view[n].block = block
   THEN view[CHOOSE n \in DOMAIN view : view[n].block = block].title ELSE block : block \in blocks}

-----------------------------------------------------------------------------
(* The addresses a message lists are the ones a press takes: each listed    *)
(* element but a link is selected by them, alone or with its label, even    *)
(* when another has the same label; and a press that is accepted reaches    *)
(* what every part of its selector names (DescribeElement, elementMatches). *)
ListedActionsCanBePressed(blocks, sel) ==
  LET listed == MessageActions(blocks)
      got == SelectMessageAction(blocks, sel)
  IN /\ \A n \in DOMAIN listed : \A label \in {None, listed[n].label} :
          ~listed[n].link =>
            LET pressed == SelectMessageAction(blocks, Selector(label, listed[n].action, listed[n].block))
            IN pressed # Refusal /\ CompactActionFor(pressed) = listed[n]
     /\ got # Refusal =>
          /\ sel.block # None => got[1] = sel.block
          /\ \A n \in DOMAIN listed : sel.label # None /\ SameWord(listed[n].label, sel.label)
               /\ (sel.block # None => listed[n].block = sel.block)
               /\ (sel.action # None => listed[n].action = sel.action)
               => listed[n] = CompactActionFor(got)

(* The fields whose value as shown, if given back, must mean the same.  A   *)
(* rich text loses its format when shown, and what agent-slack cannot       *)
(* submit it cannot take.                                                   *)
Refillable ==
  TextInputs \cup OptionMenus \cup MultiMenus \cup {"datepicker", "timepicker"}
    \cup DOMAIN IdSelectKeys
GivenBack(view, n) ==
  BuildViewState(view, [title \in {DescribeView(view)[n].title} |-> DescribeView(view)[n].value])
IsShownAlone(view, n) ==
  LET shown == DescribeView(view)
  IN /\ shown[n].value # <<>> /\ shown[n].type \in Refillable
     /\ \A k \in DOMAIN shown : SameWord(shown[k].title, shown[n].title) => k = n
KeepsItsValue(view, n) == GivenBack(view, n) = BuildViewState(view, <<>>)

(* An option of a menu that takes several, whose label has a comma.         *)
HoldsSplitLabel(input) ==
  /\ input.element.type \in MultiMenus
  /\ \E n \in DOMAIN CurrentEntry(input).held : Len(CurrentEntry(input).held[n].label) # 1

(* What a view shows as a field's value is a value that field takes, and it *)
(* means the same: to submit any field as shown changes nothing, unless it  *)
(* holds several options and a label of theirs has a comma; and to submit   *)
(* another leaves it (describeView, matchElementOption, buildViewState).    *)
(* Option labels differ by more than case, and none is another option's     *)
(* value.                                                                   *)
ShownValuesAreKept(view, fields) ==
  LET shown == DescribeView(view)
      inputs == ViewInputs(view)
      filled == BuildViewState(view, fields)
      Kept(n) == shown[n].value # <<>> /\ ~\E t \in DOMAIN fields : SameWord(t, shown[n].title)
  IN /\ BuildViewState(view, <<>>) # Refusal =>
          \A n \in DOMAIN shown :
            IsShownAlone(view, n) /\ ~HoldsSplitLabel(inputs[n]) => KeepsItsValue(view, n)
     /\ filled # Refusal =>
          \A n \in DOMAIN shown : LET input == inputs[n] IN
            /\ shown[n].required => \E e \in filled.state : e[1] = input.block /\ EntryHasValue(e[3])
            /\ Kept(n) => <<input.block, input.element.action, CurrentEntry(input)>> \in filled.state

(* The same of every menu.                                                  *)
EveryShownValueIsTaken(view) ==
  BuildViewState(view, <<>>) # Refusal =>
    \A n \in DOMAIN DescribeView(view) : IsShownAlone(view, n) => KeepsItsValue(view, n)

(* Fields with values that the schema's check accepts and that the opened   *)
(* form takes are submitted with one for every required field, under the    *)
(* block of that field's own input (ValidateWorkflowFields, buildFormState).*)
ValidFieldsAreSubmitted(view, schema, fields) ==
  LET got == BuildFormState(view, schema, fields)
  IN ValidateWorkflowFields(fields, schema) /\ got # Refusal =>
       \A n \in DOMAIN schema : schema[n].required =>
         \E e \in got.state, k \in DOMAIN view :
           /\ e[1] = view[k].block /\ e[2] = view[k].element.action
           /\ e[2] = schema[n].name /\ EntryHasValue(e[3])
=============================================================================
