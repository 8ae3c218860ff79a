------------------------------- MODULE Startup -------------------------------
(***************************************************************************)
(* How the two services come up: each reads its environment, validates it, *)
(* and runs or refuses to; the search API then finds the ML service at the *)
(* configured URL and checks its model metadata. Services stop and start   *)
(* again, under the same or another environment.                           *)
(*                                                                         *)
(* An environment is a function from the variables set to their values; a  *)
(* value is a sequence of tokens: blanks, words, and in a URL its scheme   *)
(* and authority in one, the characters and escapes of its path, "?", "#". *)
(* What a word parses to is a parameter.                                   *)
(***************************************************************************)
EXTENDS Blanks, Integers

CONSTANTS
  ApiEnvironments,   \* environments of the search API
  MlEnvironments,    \* environments of the ML service
  \* For each parser, a function from the words it accepts to what it reads.
  Atoi,              \* strconv.Atoi
  PyInt,             \* int()
  ParseDuration,     \* time.ParseDuration, in seconds
  SlogLevel,         \* slog.Level.UnmarshalText
  Origins            \* url.Parse, of scheme and authority: see UrlOrigins

VARIABLES
  api,     \* search API: "down", "refused", "unbuilt", "failed", "up"
  config,  \* its Config, while up
  client,  \* where its ML service client sends requests, while up
  ml,      \* ML service: "down", "refused", "up"
  settings,\* its Settings, while up
  reply    \* the dependency status the last status probe reported

vars == <<api, config, client, ml, settings, reply>>

Nothing == [unset |-> TRUE]

-----------------------------------------------------------------------------
(* Scheme and authority, and how URL.String writes them ("HTTP://h" as      *)
(* "http://h"), which reads the same.                                       *)
NoHost == ""
UrlOrigins == [scheme : STRING, host : STRING, port : Nat, user : BOOLEAN, written : STRING]

ASSUME OriginsAreRead ==
  /\ DOMAIN Origins \cap {"blank", "odd_blank", "%zz"} = {}
  /\ \A word \in DOMAIN Origins :
       /\ Origins[word] \in UrlOrigins /\ Origins[word].written \in DOMAIN Origins
       /\ Origins[Origins[word].written] = Origins[word]
ASSUME EnvironmentsAreTexts ==
  \A env \in ApiEnvironments \cup MlEnvironments :
    \A key \in DOMAIN env : env[key] \in Seq(STRING)

(* _LOG_LEVEL_VALUES, under spellings that occur. *)
PyLevel == [debug |-> 10, info |-> 20, WARNING |-> 30, ERROR |-> 40]

-----------------------------------------------------------------------------
\* The value of a variable without the blanks around it; <<>> if unset or blank.
Text(env, key, blank) == IF key \in DOMAIN env THEN Trim(env[key], blank) ELSE <<>>

\* A text that is one word the table knows.
Parses(text, table) == Len(text) = 1 /\ text[1] \in DOMAIN table
Parsed(text, table, fallback) == IF text = <<>> THEN fallback ELSE table[text[1]]

(* stringValue *)
StringValue(env, key, fallback) ==
  IF Text(env, key, GoBlank) = <<>> THEN fallback ELSE Text(env, key, GoBlank)

Ports == 1..65535

(* intValue: is the value acceptable, and which one it is. *)
IntOK(env, key) ==
  LET text == Text(env, key, GoBlank)
  IN  text = <<>> \/ (Parses(text, Atoi) /\ Atoi[text[1]] \in Ports)
IntValue(env, key, fallback) == Parsed(Text(env, key, GoBlank), Atoi, fallback)

\* Mutant: zero means "no timeout".
DurationOK_Zero(env, key) ==
  LET text == Text(env, key, GoBlank)
  IN  text = <<>> \/ (Parses(text, ParseDuration) /\ ParseDuration[text[1]] >= 0)

(* durationValue *)
DurationOK(env, key) ==
  LET text == Text(env, key, GoBlank)
  IN  text = <<>> \/ (Parses(text, ParseDuration) /\ ParseDuration[text[1]] > 0)
DurationValue(env, key, fallback) == Parsed(Text(env, key, GoBlank), ParseDuration, fallback)

\* strings.TrimRight(path, "/")
TrimPath(path) ==
  LET kept == {i \in DOMAIN path : path[i] # "/"}
  IN  IF kept = {} THEN <<>> ELSE SubSeq(path, 1, Max(kept))

(* The parts of a URL's text: its first token, the path as written, and     *)
(* what the first "?" or "#" begins.                                        *)
Marks(text) == {i \in 2..Len(text) : text[i] \in {"?", "#"}}
PathEnd(text) == IF Marks(text) = {} THEN Len(text) ELSE Min(Marks(text)) - 1
WrittenPath(text) == SubSeq(text, 2, PathEnd(text))
Rest(text) == SubSeq(text, PathEnd(text) + 1, Len(text))

\* Percent-decoding of a path, and the encoding URL.String gives one.
Unescape(token) ==
  CASE token = "%20" -> "blank" [] token = "%3F" -> "?" [] token = "%2F" -> "/" [] OTHER -> token
Escape(character) ==
  CASE character = "blank" -> "%20" [] character = "?" -> "%3F" [] OTHER -> character
Unescaped(written) == [i \in DOMAIN written |-> Unescape(written[i])]
Escaped(path) == [i \in DOMAIN path |-> Escape(path[i])]

\* Mutant: the decoded path is written as it is.
EscapedPath_Plain(written, path) == path

(* URL.EscapedPath: the path as it was written, if it still says path and   *)
(* needs no escapes.                                                        *)
EscapedPath(written, path) ==
  IF Unescaped(written) = path /\ (\A i \in DOMAIN written : written[i] # "blank")
  THEN written ELSE Escaped(path)

(* url.Parse and the checks after it, the same in urlValue and New. Control *)
(* characters and broken escapes are errors; RawQuery and Fragment are      *)
(* empty also after a bare "?" or "#".                                      *)
UrlOK(text) ==
  /\ text # <<>> /\ text[1] \in DOMAIN Origins
  /\ \A i \in DOMAIN text : text[i] \notin {"odd_blank", "%zz"}
  /\ WrittenPath(text) # <<>> => WrittenPath(text)[1] = "/"
  /\ LET url == Origins[text[1]]
     IN  url.scheme \in {"http", "https"} /\ url.host # NoHost /\ ~url.user
  /\ Rest(text) \in {<<>>, <<"?">>, <<"#">>, <<"?", "#">>}

\* What both then keep: where to send requests, without trailing slashes.
BaseUrl(text) == [origin |-> Origins[text[1]], path |-> TrimPath(Unescaped(WrittenPath(text)))]

(* urlValue returns it as a text again: parsed.String(), which keeps a bare *)
(* "?" (ForceQuery). The fallback goes through the same checks.             *)
UrlValue(text) ==
  <<BaseUrl(text).origin.written>>
    \o EscapedPath(WrittenPath(text), BaseUrl(text).path)
    \o (IF Rest(text) \in {<<"?">>, <<"?", "#">>} THEN <<"?">> ELSE <<>>)

(* logLevelValue *)
LevelOK(env, key) ==
  LET text == Text(env, key, GoBlank) IN text = <<>> \/ Parses(text, SlogLevel)

DefaultTimeout ==
  [SEARCH_API_READ_HEADER_TIMEOUT |-> 5, SEARCH_API_READ_TIMEOUT |-> 10,
   SEARCH_API_WRITE_TIMEOUT |-> 15, SEARCH_API_IDLE_TIMEOUT |-> 60,
   SEARCH_API_SHUTDOWN_TIMEOUT |-> 10, ML_SERVICE_TIMEOUT |-> 2]
DefaultUrl == <<"http://localhost:8090">>

\* LoadFromLookup: no error, and the Config.
Loads(env) ==
  /\ IntOK(env, "SEARCH_API_PORT")
  /\ \A key \in DOMAIN DefaultTimeout : DurationOK(env, key)
  /\ UrlOK(StringValue(env, "ML_SERVICE_URL", DefaultUrl))
  /\ LevelOK(env, "LOG_LEVEL")
Config(env) ==
  [host |-> StringValue(env, "SEARCH_API_HOST", <<"0.0.0.0">>),
   port |-> IntValue(env, "SEARCH_API_PORT", 8080),
   timeout |-> [key \in DOMAIN DefaultTimeout |-> DurationValue(env, key, DefaultTimeout[key])],
   url |-> UrlValue(StringValue(env, "ML_SERVICE_URL", DefaultUrl)),
   level |-> Parsed(Text(env, "LOG_LEVEL", GoBlank), SlogLevel, 0)]

(* mlclient.New, which reads the configured text once more: no error, and   *)
(* the Client.                                                              *)
ClientBuilds(cfg) ==
  cfg.timeout["ML_SERVICE_TIMEOUT"] > 0 /\ UrlOK(Trim(cfg.url, GoBlank))
NewClient(cfg) == BaseUrl(Trim(cfg.url, GoBlank))

-----------------------------------------------------------------------------
\* Mutant: an environment that is blank is kept.
Environment_Blank(env) ==
  IF "GROUNDEDSEARCH_ENV" \in DOMAIN env THEN Text(env, "GROUNDEDSEARCH_ENV", PyBlank)
  ELSE <<"development">>

\* Settings.from_env: the environment's name, ...
Environment(env) ==
  LET text == Text(env, "GROUNDEDSEARCH_ENV", PyBlank)
  IN  IF text = <<>> THEN <<"development">> ELSE text

\* ... no error, and the Settings.
MlLoads(env) ==
  LET port == Text(env, "ML_SERVICE_PORT", PyBlank)
      level == Text(env, "LOG_LEVEL", PyBlank)
  IN  /\ port = <<>> \/ (Parses(port, PyInt) /\ PyInt[port[1]] \in Ports)
      /\ level = <<>> \/ Parses(level, PyLevel)
Settings(env) ==
  [port |-> Parsed(Text(env, "ML_SERVICE_PORT", PyBlank), PyInt, 8090),
   log_level |-> Parsed(Text(env, "LOG_LEVEL", PyBlank), PyLevel, 20),
   environment |-> Environment(env)]

(* model_info and ModelInfoResponse. A name that is no Unicode text ("raw", *)
(* bytes os.environ could not decode) fails the model's str field: 500.     *)
Answers500(cfg) == \E i \in DOMAIN cfg.environment : cfg.environment[i] = "raw"
ModelInfo(cfg) ==
  [service |-> "ml-service", version |-> <<"0.1.0">>, status |-> "ready",
   mode |-> "foundation", python_version |-> <<"3.10.5">>, environment |-> cfg.environment]

(* validateModelInfo *)
ValidModelInfo(info) ==
  /\ info.service = "ml-service" /\ info.status = "ready" /\ info.mode = "foundation"
  /\ Trim(info.version, GoBlank) # <<>>
  /\ Trim(info.python_version, GoBlank) # <<>>
  /\ Trim(info.environment, GoBlank) # <<>>

-----------------------------------------------------------------------------
Init ==
  /\ api = "down" /\ config = Nothing /\ client = Nothing
  /\ ml = "down" /\ settings = Nothing
  /\ reply = "none"

\* main: configuration, client, then the server, which may fail to listen.
ApiOutcomes(env) ==
  IF ~Loads(env) THEN {"refused"}
  ELSE IF ~ClientBuilds(Config(env)) THEN {"unbuilt"}
  ELSE {"up", "failed"}

StartApi(env) ==
  /\ api # "up"
  /\ api' \in ApiOutcomes(env)
  /\ config' = IF api' = "up" THEN Config(env) ELSE Nothing
  /\ client' = IF api' = "up" THEN NewClient(Config(env)) ELSE Nothing
  /\ reply' = "none"
  /\ UNCHANGED <<ml, settings>>

StopApi ==
  /\ api = "up" /\ api' = "down" /\ config' = Nothing /\ client' = Nothing
  /\ reply' = "none"
  /\ UNCHANGED <<ml, settings>>

\* __main__.main: Settings.from_env, then create_app and uvicorn.
StartMl(env) ==
  /\ ml # "up"
  /\ \/ ~MlLoads(env) /\ ml' = "refused" /\ UNCHANGED settings
     \/ MlLoads(env) /\ ml' = "up" /\ settings' = Settings(env)
  /\ UNCHANGED <<api, config, client, reply>>

StopMl ==
  /\ ml = "up" /\ ml' = "down" /\ settings' = Nothing
  /\ UNCHANGED <<api, config, client, reply>>

\* The client's URL leads to the ML service's listener.
Connects == ml = "up" /\ client.origin.scheme = "http" /\ client.origin.port = settings.port

\* The request goes to the metadata route, and the route answers 200. Elsewhere, at
\* the ML service or at the search API itself, the answer is 404.
Answers200 == Connects /\ client.path = <<>> /\ ~Answers500(settings)

(* One call of Client.ModelInfo and the handler's classification of it,     *)
(* with no failure of the network: no answer or one of another status is    *)
(* "unavailable", only a 200 answer is validated.                           *)
Probe ==
  /\ api = "up"
  /\ reply' = IF ~Answers200 THEN "unavailable"
              ELSE IF ValidModelInfo(ModelInfo(settings)) THEN "ready" ELSE "invalid_response"
  /\ UNCHANGED <<api, config, client, ml, settings>>

Next ==
  \/ \E env \in ApiEnvironments : StartApi(env)
  \/ \E env \in MlEnvironments : StartMl(env)
  \/ StopApi \/ StopMl \/ Probe

Spec == Init /\ [][Next]_vars

-----------------------------------------------------------------------------
(* Types; of a running search API, that its port can be listened on and     *)
(* each of its timeouts is positive, which server.New and the transport     *)
(* rely on (zero would switch them off).                                    *)
TypeOK ==
  /\ api \in {"down", "refused", "unbuilt", "failed", "up"}
  /\ ml \in {"down", "refused", "up"}
  /\ reply \in {"none", "ready", "invalid_response", "unavailable"}
  /\ api = "up" => /\ config.port \in Ports
                   /\ \A key \in DOMAIN config.timeout : config.timeout[key] > 0
  /\ ml = "up" => settings.port \in Ports

(* A start never gets past the configuration to fail on the same URL in     *)
(* mlclient.New, and the client asks the service the environment names:     *)
(* nothing is lost between the first reading of the URL, its normalised     *)
(* text and the second reading, which trims blanks before it parses.        *)
AcceptedConfigBuilds ==
  [][\A env \in ApiEnvironments : StartApi(env) /\ Loads(env) =>
       /\ api' # "unbuilt"
       /\ api' = "up" => client' = BaseUrl(StringValue(env, "ML_SERVICE_URL", DefaultUrl))]_vars

(* Whatever the two environments are, a search API whose URL names the ML   *)
(* service's port, with or without trailing slashes, finds it ready: the    *)
(* metadata made from the ML service's settings passes the search API's     *)
(* validation. Only an environment name that is no text is excepted.        *)
AddressedIsReady ==
  [][Probe /\ Connects /\ ~Answers500(settings)
           /\ (\A i \in DOMAIN client.path : client.path[i] = "/")
       => reply' = "ready"]_vars
=============================================================================
