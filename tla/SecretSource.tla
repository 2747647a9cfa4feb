----------------------------- MODULE SecretSource -----------------------------
\* The secret review of one Template (iacreview/secrets.py): environment
\* variables of functions, start scripts of instances, defaults of parameters.
\* The patterns are data: a text is a credential, a placeholder or varied, and a
\* name says that its value is a secret, or not.
EXTENDS ResourceGraph

CONSTANTS
  CredentialTexts,    \* the texts of the shape of a credential
  PlaceholderTexts,   \* the texts that are obviously no credential
  VariedTexts,        \* the texts that are long and varied enough to be one
  SecretNames,        \* the names that say that the value is a secret
  AssigningScripts    \* the scripts that assign such a value to such a name

SECRET_SOURCE == "Secret Review"

looks_like_secret(text) == text \in CredentialTexts \ PlaceholderTexts
Revealing(name, text) ==
  looks_like_secret(text) \/ (name \in SecretNames /\ text \in VariedTexts \ PlaceholderTexts)

_scan_lambda_env(properties) ==
  LET variables == Get(Get(properties, "Environment"), "Variables")
  IN  {<<"Environment", "Variables", key>>
         : key \in {k \in KeysOf(variables) : IsStr(variables.map[k]) /\ Revealing(k, variables.map[k].text)}}

Unwrapped(value, key) == IF Has(value, key) THEN value.map[key] ELSE value
_userdata_text(userdata) ==
  LET body == Unwrapped(userdata, "Fn::Base64")
      sub == Get(body, "Fn::Sub")
  IN  IF IsList(sub) /\ sub.list # <<>> THEN sub.list[1] ELSE IF IsStr(sub) THEN sub ELSE body

\* One finding for a whole script.
_scan_userdata(properties) ==
  LET script == _userdata_text(Get(properties, "UserData"))
  IN  {<<"UserData">> : x \in {s \in {script} : IsStr(s) /\ s.text \in AssigningScripts}}

_scan_parameters(doc) ==
  LET parameters == Get(doc, "Parameters")
      default(name) == Get(parameters.map[name], "Default")
  IN  {name \in KeysOf(parameters) : IsStr(default(name)) /\ Revealing(name, default(name).text)}

\* What was found is never shown.
SecretFinding(file, id, path, rule) ==
  OwnFinding(SECRET_SOURCE, "DataProtection", "Security", "HIGH", file, id, path, rule, REDACTED_EXCERPT)

PathLess(p, q) == LexLess([i \in DOMAIN p |-> Lex(p[i])], [i \in DOMAIN q |-> Lex(q[i])])
SecretFindings(doc, file) ==
  LET each(paths, id, rule) ==
        LET found == SortedSet(paths, PathLess)
        IN  [i \in DOMAIN found |-> SecretFinding(file, id, <<"Resources", id, "Properties">> \o found[i], rule)]
      of(id) ==
        LET properties == Get(Resources(doc).map[id], "Properties")
            type == ResourceType(Resources(doc).map[id])
        IN  IF type = "AWS::Lambda::Function"
            THEN each(_scan_lambda_env(properties), id, "lambda_env_plaintext_secret")
            ELSE IF type = "AWS::EC2::Instance"
                 THEN each(_scan_userdata(properties), id, "userdata_plaintext_secret") ELSE <<>>
      ids == InOrder(KeysOf(Resources(doc)))
      names == InOrder(_scan_parameters(doc))
  IN  FlattenSeq([i \in DOMAIN ids |-> of(ids[i])])
        \o [i \in DOMAIN names |->
              SecretFinding(file, None, <<"Parameters", names[i], "Default">>, "parameter_default_secret")]
=============================================================================
