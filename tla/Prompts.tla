----------------------------------- MODULE Prompts -----------------------------------
(*****************************************************************************)
(* The two prompt providers: plugins/prompt-template-registry keeps versioned *)
(* prompts, plugins/prompt-context-injector an ordered list of rules.  Both  *)
(* empty their list and fill it again, without a lock, while calls read it.  *)
(*                                                                           *)
(* A rule is kept as a prompt without version and default: its key is the    *)
(* ref.  The ref of a prompt without one is its name.  A message is its role *)
(* and an opaque text; the substitution of {{variables}} in it is left out.  *)
(*****************************************************************************)
EXTENDS SequencesExt, Subsequences

CONSTANTS PromptConfigs,   (* sequences of prompts, Unset for a missing field *)
          VersionOrder     (* the versions in ascending order of strings     *)

Unset == ""

Message == [role : STRING, text : STRING]
PromptType == [ref : STRING, version : STRING, default : BOOLEAN, tenant : STRING,
               subject : STRING, model : STRING, mode : STRING, messages : Seq(Message)]

VARIABLES
    prompts,       (* plugin.prompts, or plugin.rules                        *)
    promptsLeft,   (* the items Configure has still to append                *)
    promptsGiven   (* history: the items of the last Configure call          *)

promptsVars == <<prompts, promptsLeft, promptsGiven>>

NoPrompt == [ref |-> "none"]

-----------------------------------------------------------------------------
(* The defaults of an item: kind is "registry" or "injector". *)
PromptDefaults(kind, p) ==
    [p EXCEPT !.version = IF kind = "registry" /\ @ = Unset THEN "v1" ELSE @,
              !.mode = IF @ # Unset THEN @
                       ELSE IF kind = "registry" THEN "replace" ELSE "prepend_system"]

(* Every version a prompt may have is known to VersionOrder, and once.        *)
ASSUME PromptConfigsAssumption ==
    /\ PromptConfigs \subseteq Seq(PromptType)
    /\ VersionOrder \in Seq(STRING) /\ IsInjective(VersionOrder)
    /\ \A c \in PromptConfigs : \A i \in DOMAIN c :
          \E n \in DOMAIN VersionOrder :
              VersionOrder[n] = PromptDefaults("registry", c[i]).version

PromptsAreLoading == promptsLeft # <<>>

(* Configure begins: the list is emptied... *)
EmptyPrompts(config) ==
    /\ ~PromptsAreLoading
    /\ prompts' = <<>>
    /\ promptsLeft' = config
    /\ promptsGiven' = config

(* ... and filled, one item at a time. *)
AppendPrompt(kind) ==
    /\ PromptsAreLoading
    /\ prompts' = Append(prompts, PromptDefaults(kind, Head(promptsLeft)))
    /\ promptsLeft' = Tail(promptsLeft)
    /\ UNCHANGED promptsGiven

-----------------------------------------------------------------------------
(* ResolvePrompt.  A request has an identity, and the ref, version, model    *)
(* and messages of its call.                                                 *)

Matches(pattern, value) == pattern \in {Unset, "*", value}

(* Mutant of Fits: the tenant is not compared. *)
FitsAnyTenant(p, call, identity) ==
    /\ Matches(p.ref, call.ref)
    /\ Matches(p.subject, identity.subject)
    /\ Matches(p.model, call.model)

Fits(p, call, identity) ==
    /\ Matches(p.ref, call.ref)
    /\ Matches(p.tenant, identity.tenant)
    /\ Matches(p.subject, identity.subject)
    /\ Matches(p.model, call.model)

Rank(version) == CHOOSE n \in DOMAIN VersionOrder : VersionOrder[n] = version

(* The first index of list that is in set. *)
FirstOf(list, set) == list[Min(set)]

(* selectPrompt: the version that was asked for, else the first default,     *)
(* else the greatest version as strings go.                                  *)
SelectVersion(list, call, identity) ==
    LET fits == {i \in DOMAIN list : Fits(list[i], call, identity)}
        asked == {i \in fits : list[i].version = call.version}
        defaults == {i \in fits : list[i].default}
        latest == {i \in fits : \A j \in fits :
                      Rank(list[j].version) <= Rank(list[i].version)}
    IN IF call.version # Unset
       THEN IF asked = {} THEN NoPrompt ELSE FirstOf(list, asked)
       ELSE IF fits = {} THEN NoPrompt
       ELSE FirstOf(list, IF defaults # {} THEN defaults ELSE latest)

(* The injector takes the first rule that fits and knows no versions. *)
SelectRule(list, call, identity) ==
    LET fits == {i \in DOMAIN list : Fits(list[i], call, identity)}
    IN IF fits = {} THEN NoPrompt ELSE FirstOf(list, fits)

Select(kind, call, identity) ==
    IF kind = "registry"
    THEN SelectVersion(prompts, call, identity)
    ELSE SelectRule(prompts, call, identity)

IsSystem(message) == message.role = "system"
NotSystem(messages) ==
    Kept(messages, {i \in DOMAIN messages : ~IsSystem(messages[i])})

(* Mutant of ApplyMode: replace_system replaces everything. *)
ApplyModeToAll(kind, p, current) ==
    CASE p.mode = "replace" -> p.messages
      [] p.mode = "replace_system" -> p.messages
      [] p.mode = "append" -> current \o p.messages
      [] OTHER -> p.messages \o current

(* applyMode and applyRule.  They differ in what an unknown mode does: the   *)
(* registry replaces, the injector prepends.                                 *)
ApplyMode(kind, p, current) ==
    CASE p.mode = "replace" -> p.messages
      [] p.mode = "replace_system" -> p.messages \o NotSystem(current)
      [] p.mode = "append" -> current \o p.messages
      [] p.mode \in {"prepend", "prepend_system"} -> p.messages \o current
      [] OTHER -> IF kind = "registry" THEN p.messages ELSE p.messages \o current

(* The messages of the call, as a plugin has them: none, if messages_json is *)
(* missing or no JSON, for the error of Unmarshal is ignored.  (JSON of      *)
(* another shape, of which Unmarshal keeps some fields, is left out.)        *)
Current(call) == IF call.decodes THEN call.messages ELSE <<>>

(* Without a prompt the answer is empty, and the gateway keeps the messages. *)
Resolved(kind, p, call) ==
    IF p = NoPrompt THEN call.messages ELSE ApplyMode(kind, p, Current(call))

PromptsInit(kind) ==
    /\ promptsGiven \in PromptConfigs
    /\ prompts = [i \in DOMAIN promptsGiven |-> PromptDefaults(kind, promptsGiven[i])]
    /\ promptsLeft = <<>>
=============================================================================
