-------------------------------- MODULE MCCli --------------------------------
(***************************************************************************)
(* A repository with a manifest, a directory base, links to it and to a    *)
(* directory in it, and in base two manifests, a link to one of them, a    *)
(* file that is no manifest, and a directory that is skipped, with a       *)
(* manifest.                                                               *)
(***************************************************************************)
EXTENDS Cli

Here == 0   \* "."
Above == 9  \* ".."
App == 1
Base == 2
Envs == 3
Notes == 4
Twin == 5
Vendor == 6
Zed == 7
StdinName == 8
Lib == 10

MCFiles == {<<Base, App>>, <<Base, Zed>>, <<Base, Notes>>, <<Base, Vendor, App>>, <<Zed>>}
MCDirs == {<<>>, <<Base>>, <<Base, Vendor>>}
MCLinks == (<<Envs>> :> <<Base>>) @@ (<<Base, Twin>> :> <<Base, App>>)
             @@ (<<Lib>> :> <<Base, Vendor>>)
MCStdin == <<StdinName>>
MCEdited == {<<Base, App>>}

OnePath == {<<p>> : p \in MCFiles \cup (MCDirs \ {<<>>}) \cup DOMAIN MCLinks
                            \cup {<<Here>>, <<Here, Base>>, <<Envs, Twin>>, <<Notes>>,
                                  <<Lib, Above, Base>>, <<Lib, Above>>, <<Envs, Notes, Above>>}}
TwoPaths == {<<<<Base, App>>, <<Here, Base, App>>>>, <<<<Base>>, <<Base, Twin>>>>,
             <<<<Base, App>>, <<Notes>>>>, <<<<Envs>>, <<Base, Vendor>>>>,
             <<<<Envs, Above, Base>>, <<Zed>>>>}

\* What does not vary: the texts of two files, and standard input where it is not read.
MCInit ==
  /\ args \in {<<>>} \cup OnePath \cup TwoPaths
  /\ content \in [MCFiles -> Texts]
  /\ \A f \in {<<Base, Notes>>, <<Base, Vendor, App>>, <<Zed>>} : content[f] = "messy"
  /\ opts \in Options /\ stdin \in Texts
  /\ args = <<>> => \A f \in MCFiles : content[f] = "messy"
  /\ args # <<>> => stdin = "messy"
  /\ Init

MCSpec == MCInit /\ [][Next]_vars
=============================================================================
