-------------------------------- MODULE Settings --------------------------------
(***************************************************************************)
(* The settings (features/settings): the commands a user writes, how they   *)
(* are read, and what they change.  A settings state is a function from the *)
(* fields to the words that name their values; an input is the sequence of  *)
(* its words, in lower case.                                                *)
(***************************************************************************)
EXTENDS Naturals, Sequences

Choices ==
  [mode |-> {"cpu", "gpu", "auto"}, shell |-> {"fish", "zsh", "auto"},
   autoInit |-> {"on", "off"}, cadence |-> {"monitor-auto"},
   font |-> {"system", "bundled-only"},
   theme |-> {"system", "cuberpunk", "aurora", "monochrome", "dark", "light", "solarized",
              "dracula", "catppuccin"},
   profile |-> {"balanced", "throughput", "stability"}, debug |-> {"on", "off"}]

defaultSettings ==
  [mode |-> "auto", shell |-> "auto", autoInit |-> "on", cadence |-> "monitor-auto",
   font |-> "system", theme |-> "cuberpunk", profile |-> "balanced", debug |-> "off"]

----------------------------------------------------------------------------
(* Reading a command (parse_palette_command).                               *)

sets(field, value) == [field |-> field, value |-> value, error |-> "none"]

fault(error) == [field |-> "none", value |-> "none", error |-> error]

(* The words after those that name the field: one value of the field.       *)
parseValue(field, words) ==
  CASE Len(words) = 0 -> fault("MissingArgument")
    [] Len(words) > 1 -> fault("UnexpectedTrailingInput")
    [] OTHER -> IF words[1] \in Choices[field] THEN sets(field, words[1]) ELSE fault("InvalidValue")

parseShell(words) ==
  IF Len(words) > 0 /\ words[1] = "auto-init"
  THEN parseValue("autoInit", Tail(words)) ELSE parseValue("shell", words)

parseMode(words) == parseValue("mode", words)

parseProfile(words) == parseValue("profile", words)

parseDebug(words) == parseValue("debug", words)

(* font and theme look for their value before they look at the word between *)
parseNamed(field, word, words) ==
  CASE Len(words) < 2 -> fault("MissingArgument")
    [] Len(words) >= 2 /\ words[1] # word -> fault("InvalidValue")
    [] OTHER -> parseValue(field, Tail(words))

parseFont(words) == parseNamed("font", "fallback", words)

parseTheme(words) == parseNamed("theme", "set", words)

parseRender(words) ==
  CASE Len(words) = 0 -> fault("MissingArgument")
    [] Len(words) > 0 /\ words[1] # "cadence" -> fault("InvalidValue")
    [] OTHER -> parseValue("cadence", Tail(words))

parseCommand(words) ==
  IF words = <<>> THEN fault("EmptyInput")
  ELSE LET rest == Tail(words)
       IN  CASE words[1] = "mode" -> parseMode(rest)
             [] words[1] = "shell" -> parseShell(rest)
             [] words[1] = "render" -> parseRender(rest)
             [] words[1] = "font" -> parseFont(rest)
             [] words[1] = "theme" -> parseTheme(rest)
             [] words[1] = "profile" -> parseProfile(rest)
             [] words[1] = "debug" -> parseDebug(rest)
             [] OTHER -> fault("UnknownCommand")

----------------------------------------------------------------------------
(* What a command does (SettingsService).                                   *)

contradicts(settings) == settings.autoInit = "on" /\ settings.shell = "zsh"

(* sanitize_settings_state                                                  *)
sanitized(settings) ==
  IF contradicts(settings) THEN [settings EXCEPT !.autoInit = "off"] ELSE settings

became(settings, next) ==
  [outcome |-> IF next = settings THEN "Noop" ELSE "Applied", settings |-> next]

rejected(settings) == [outcome |-> "Rejected", settings |-> settings]

(* Mutated form: zsh leaves the start of the prompt as it was. *)
applyCommandKeepingInit(settings, field, value) ==
  IF field = "autoInit" /\ value = "on" /\ settings.shell = "zsh"
  THEN rejected(settings) ELSE became(settings, [settings EXCEPT ![field] = value])

(* SettingsService::apply; zsh turns the start of the prompt off.           *)
applyCommand(settings, field, value) ==
  LET candidate == [settings EXCEPT ![field] = value]
  IN  IF field = "autoInit" /\ contradicts(candidate)
      THEN rejected(settings) ELSE became(settings, sanitized(candidate))

applyPaletteCommand(settings, words) ==
  LET command == parseCommand(words)
  IN  IF command.error # "none" THEN rejected(settings)
      ELSE applyCommand(settings, command.field, command.value)

(* The profile a user keeps: its schema is that of this program, 1.         *)
SchemaVersion == 1

exportProfile(settings) == [version |-> SchemaVersion, settings |-> settings]

isValidProfile(profile) == profile.version = SchemaVersion /\ ~contradicts(profile.settings)

applyProfile(settings, profile) ==
  IF isValidProfile(profile) THEN became(settings, profile.settings) ELSE rejected(settings)

----------------------------------------------------------------------------
(* The palette of a runtime: the keys that write a command for the user     *)
(* (features/interaction/src/palette.rs).                                   *)
PaletteKeys == {"1", "2", "3", "d"}

commandOfKey(key, debug) ==
  CASE key = "1" -> <<"mode", "cpu">>
    [] key = "2" -> <<"mode", "gpu">>
    [] key = "3" -> <<"mode", "auto">>
    [] OTHER -> <<"debug", IF debug = "on" THEN "off" ELSE "on">>

----------------------------------------------------------------------------
(* Properties of the reader.                                                *)

(* The commands there are: the words that name a field, and a value.        *)
NameOf ==
  [mode |-> <<"mode">>, shell |-> <<"shell">>, autoInit |-> <<"shell", "auto-init">>,
   cadence |-> <<"render", "cadence">>, font |-> <<"font", "fallback">>,
   theme |-> <<"theme", "set">>, profile |-> <<"profile">>, debug |-> <<"debug">>]

Written == UNION {{Append(NameOf[field], value) : value \in Choices[field]} : field \in DOMAIN Choices}

Prefixes(words) == {SubSeq(words, 1, n) : n \in 1 .. (Len(words) - 1)}

(* Every command is read as what it says, and nothing else is read as a     *)
(* command: its beginnings miss an argument and its continuations trail     *)
(* (parse_palette_command).  Inputs is what is tried.                       *)
ReadsWhatIsWritten(Inputs) ==
  /\ \A field \in DOMAIN Choices : \A value \in Choices[field] :
       parseCommand(Append(NameOf[field], value)) = sets(field, value)
  /\ \A words \in Inputs :
       LET e == parseCommand(words).error
       IN  /\ e = "none" <=> words \in Written
           /\ (\E w \in Written : words \in Prefixes(w)) => e = "MissingArgument"
           /\ (\E w \in Prefixes(words) : w \in Written) => e = "UnexpectedTrailingInput"

=============================================================================
