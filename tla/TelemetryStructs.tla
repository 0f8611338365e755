-------------------------- MODULE TelemetryStructs --------------------------
(***************************************************************************)
(* include/telemetry*.h: the structures of a telemetry frame, and the      *)
(* fields of them that telemetry_json.h has serialized.  Structures are    *)
(* sets of pairs of a member and its type.                                 *)
(***************************************************************************)
EXTENDS ScsInterface, Sequences

\* What is written at once: by a store, or by a HandleXxxConfig.
Whole == {"bool", "double", "float", "s32", "s64", "u32", "u64", "string", "ratios",
          "TelemetryVec3D", "TelemetryOrientation", "TelemetryPlacement"}

-----------------------------------------------------------------------------
(* The structures.  The elements of the arrays, of wheels and of trailers, *)
(* have their own.                                                         *)

CommonStruct(type) ==
    CASE type = "TelemetryVec3D" -> Are("double", {"x", "y", "z"})
      [] type = "TelemetryOrientation" -> Are("double", {"heading", "pitch", "roll"})
      [] type = "TelemetryPlacement" ->
            Are("TelemetryVec3D", {"position"}) \cup Are("TelemetryOrientation", {"orientation"})
      [] type = "TelemetryWheelConfig" ->
            Are("bool", {"isLiftable", "isPowered", "isSimulated", "isSteerable"})
            \cup Are("TelemetryVec3D", {"position"}) \cup Are("double", {"radius"})
      [] type = "TelemetryWheel" ->
            Are("double", {"lift", "liftOffset", "rotation", "steering",
                           "suspensionDeflection", "velocity"})
            \cup Are("bool", {"isOnGround"}) \cup Are("u32", {"substance"})
            \cup Are("TelemetryWheelConfig", {"config"})

TruckPart(type) ==
    CASE type = "TelemetryTruckCabin" ->
            Are("TelemetryPlacement", {"offset"})
            \cup Are("TelemetryVec3D", {"angularAcceleration", "angularVelocity"})
      [] type = "TelemetryTruckInput" -> Are("double", {"brake", "throttle", "clutch", "steering"})
      [] type = "TelemetryTruckBrake" ->
            Are("u32", {"retarder"}) \cup Are("double", {"airPressure", "temperature"})
            \cup Are("bool", {"parking", "motor", "airPressureWarning", "airPressureEmergency"})
      [] type = "TelemetryTruckFuel" ->
            Are("double", {"amount", "range", "averageConsumption"}) \cup Are("bool", {"warning"})
      [] type = "TelemetryTruckEngine" ->
            Are("double", {"rpm"}) \cup Are("s32", {"gear"}) \cup Are("bool", {"enabled"})
      [] type = "TelemetryTruckOil" ->
            Are("double", {"pressure", "temperature"}) \cup Are("bool", {"pressureWarning"})
      [] type = "TelemetryTruckAdblue" ->
            Are("double", {"amount", "averageConsumption"}) \cup Are("bool", {"warning"})
      [] type = "TelemetryTruckLight" ->
            Are("bool", {"leftBlinker", "rightBlinker", "parking", "lowBeam", "highBeam",
                         "beacon", "brake", "reverse"})
            \cup Are("u32", {"auxFront", "auxRoof"})
      [] type = "TelemetryTruckWear" ->
            Are("double", {"engine", "transmission", "cabin", "chassis", "wheels"})
      [] type = "TelemetryTruckNavigation" -> Are("double", {"distance", "time", "speed_limit"})

TelemetryTruckConfig ==
    Are("string", {"brandId", "brand", "id", "name", "licensePlate", "licensePlateCountry",
                   "licensePlateCountryId", "shifterType"})
    \cup Are("double", {"fuelCapacity", "fuelWarningFactor", "adblueCapacity",
                        "adblueWarningFactor", "airPressureWarning", "airPressureEmergency",
                        "oilPressureWarning", "waterTemperatureWarning",
                        "batteryVoltageWarning", "rpmLimit", "differentialRation"})
    \cup Are("u32", {"forwardGearCount", "reverseGearCount", "retarderStepCount", "wheelCount"})
    \cup Are("TelemetryVec3D", {"cabinPosition", "hookPosition", "headPosition"})
    \cup Are("ratios", {"forwardGearRatios", "reverseGearRatios"})

Moving ==
    Are("TelemetryPlacement", {"worldPlacement"})
    \cup Are("TelemetryVec3D", {"localLinearVelocity", "localAngularVelocity",
                                "localLinearAcceleration", "localAngularAcceleration"})
    \cup Are("array", {"wheels"})

TelemetryTruck ==
    Moving \cup Are("TelemetryTruckConfig", {"config"})
    \cup Are("TelemetryTruckCabin", {"cabin"}) \cup Are("TelemetryPlacement", {"headOffset"})
    \cup Are("double", {"speed", "cruiseControl", "waterTemperature", "batteryVoltage",
                        "dashboardBacklight", "odometer"})
    \cup Are("s32", {"displayedGear"}) \cup Are("TelemetryTruckEngine", {"engine"})
    \cup Are("TelemetryTruckInput", {"input", "effective"})
    \cup Are("TelemetryTruckBrake", {"brake"}) \cup Are("TelemetryTruckFuel", {"fuel"})
    \cup Are("TelemetryTruckAdblue", {"adblue"}) \cup Are("TelemetryTruckOil", {"oil"})
    \cup Are("bool", {"waterTemperatureWarning", "batteryVoltageWarning", "electricEnabled",
                      "leftBlinker", "rightBlinker", "hazardWarning", "differentialLock",
                      "wipers", "liftAxle", "liftAxleIndicator", "trailerLiftAxle",
                      "trailerLiftAxleIndicator"})
    \cup Are("TelemetryTruckLight", {"light"}) \cup Are("TelemetryTruckWear", {"wear"})
    \cup Are("TelemetryTruckNavigation", {"navigation"})

TrailerStruct(type) ==
    CASE type = "TelemetryTrailerConfig" ->
            Are("string", {"id", "cargoAccessoryId", "brandId", "brand", "name", "licensePlate",
                           "licensePlateCountry", "licensePlateCountryId", "chainType",
                           "bodyType"})
            \cup Are("TelemetryVec3D", {"hookPosition"}) \cup Are("u32", {"wheelCount"})
      [] type = "TelemetryTrailerWear" -> Are("double", {"body", "chassis", "wheels"})
      [] type = "TelemetryTrailer" ->
            Moving \cup Are("TelemetryTrailerConfig", {"config"})
            \cup Are("TelemetryTrailerWear", {"wear"})
            \cup Are("bool", {"connected"}) \cup Are("double", {"cargoDamage"})

TelemetryJob ==
    Are("string", {"cargoId", "cargo", "destinationCity", "destinationCityId", "sourceCity",
                   "sourceCityId", "destinationCompany", "destinationCompanyId",
                   "sourceCompany", "sourceCompanyId", "jobMarket"})
    \cup Are("u32", {"cargoUnitCount", "deliveryTime", "plannedDistance"})
    \cup Are("double", {"cargoMass", "cargoUnitMass", "cargoDamage"})
    \cup Are("u64", {"income"}) \cup Are("bool", {"isCargoLoaded", "isSpecialJob"})

TelemetryFrame ==
    Are("u32", {"gameTime"}) \cup Are("double", {"localScale"}) \cup Are("bool", {"paused"})
    \cup Are("s32", {"multiplayerTimeOffset", "restStop"})
    \cup Are("root", {"truck", "job"}) \cup Are("array", {"trailer"})

Structs == {"TelemetryVec3D", "TelemetryOrientation", "TelemetryPlacement",
            "TelemetryWheelConfig", "TelemetryWheel", "TelemetryTruckCabin",
            "TelemetryTruckInput", "TelemetryTruckBrake", "TelemetryTruckFuel",
            "TelemetryTruckEngine", "TelemetryTruckOil", "TelemetryTruckAdblue",
            "TelemetryTruckLight", "TelemetryTruckWear", "TelemetryTruckNavigation",
            "TelemetryTruckConfig", "TelemetryTruck", "TelemetryTrailerConfig",
            "TelemetryTrailerWear", "TelemetryTrailer", "TelemetryJob", "TelemetryFrame"}

Struct(type) ==
    CASE type = "TelemetryFrame" -> TelemetryFrame
      [] type = "TelemetryTruck" -> TelemetryTruck
      [] type = "TelemetryTruckConfig" -> TelemetryTruckConfig
      [] type = "TelemetryJob" -> TelemetryJob
      [] type \in {"TelemetryTrailer", "TelemetryTrailerConfig", "TelemetryTrailerWear"} ->
            TrailerStruct(type)
      [] type \in {"TelemetryVec3D", "TelemetryOrientation", "TelemetryPlacement",
                   "TelemetryWheelConfig", "TelemetryWheel"} -> CommonStruct(type)
      [] OTHER -> TruckPart(type)

-----------------------------------------------------------------------------
(* The fields that are serialized: NLOHMANN_DEFINE_TYPE_NON_INTRUSIVE *)

CommonFields(type) ==
    CASE type = "TelemetryVec3D" -> {"x", "y", "z"}
      [] type = "TelemetryOrientation" -> {"heading", "pitch", "roll"}
      [] type = "TelemetryPlacement" -> {"position", "orientation"}
      [] type = "TelemetryWheelConfig" ->
            {"isLiftable", "position", "isPowered", "radius", "isSimulated", "isSteerable"}
      [] type = "TelemetryWheel" ->
            {"lift", "liftOffset", "isOnGround", "rotation", "steering", "substance",
             "suspensionDeflection", "velocity", "config"}

\* Fault: the brake fields without one that was added to the structure later.
BrakeFieldsOld == {"retarder", "parking", "motor", "airPressure", "airPressureWarning",
                   "airPressureEmergency"}
BrakeFields == {"retarder", "parking", "motor", "airPressure", "airPressureWarning",
                "airPressureEmergency", "temperature"}

TruckPartFields(type) ==
    CASE type = "TelemetryTruckCabin" -> {"offset", "angularAcceleration", "angularVelocity"}
      [] type = "TelemetryTruckInput" -> {"brake", "throttle", "clutch", "steering"}
      [] type = "TelemetryTruckBrake" -> BrakeFields
      [] type = "TelemetryTruckFuel" -> {"amount", "range", "averageConsumption", "warning"}
      [] type = "TelemetryTruckEngine" -> {"rpm", "gear", "enabled"}
      [] type = "TelemetryTruckOil" -> {"pressure", "temperature", "pressureWarning"}
      [] type = "TelemetryTruckAdblue" -> {"amount", "averageConsumption", "warning"}
      [] type = "TelemetryTruckLight" ->
            {"leftBlinker", "rightBlinker", "parking", "lowBeam", "highBeam", "auxFront",
             "auxRoof", "beacon", "brake", "reverse"}
      [] type = "TelemetryTruckWear" -> {"engine", "transmission", "cabin", "chassis", "wheels"}
      [] type = "TelemetryTruckNavigation" -> {"distance", "time", "speed_limit"}

TruckConfigFields ==
    {"brand", "brandId", "id", "name", "fuelCapacity", "fuelWarningFactor", "adblueCapacity",
     "adblueWarningFactor", "airPressureWarning", "airPressureEmergency",
     "oilPressureWarning", "waterTemperatureWarning", "batteryVoltageWarning", "rpmLimit",
     "forwardGearCount", "reverseGearCount", "forwardGearRatios", "reverseGearRatios",
     "differentialRation", "retarderStepCount", "cabinPosition", "hookPosition",
     "headPosition", "licensePlate", "licensePlateCountry", "licensePlateCountryId",
     "wheelCount", "shifterType"}

TruckFields ==
    {"config", "worldPlacement", "localLinearVelocity", "localLinearAcceleration",
     "localAngularVelocity", "localAngularAcceleration", "cabin", "headOffset", "speed",
     "engine", "displayedGear", "input", "effective", "cruiseControl", "brake", "fuel",
     "adblue", "oil", "waterTemperature", "waterTemperatureWarning", "batteryVoltage",
     "batteryVoltageWarning", "electricEnabled", "leftBlinker", "rightBlinker",
     "hazardWarning", "differentialLock", "light", "wipers", "dashboardBacklight",
     "liftAxle", "liftAxleIndicator", "trailerLiftAxle", "trailerLiftAxleIndicator",
     "wheels", "wear", "odometer", "navigation"}

TrailerFields(type) ==
    CASE type = "TelemetryTrailerConfig" ->
            {"id", "cargoAccessoryId", "hookPosition", "brandId", "brand", "name",
             "licensePlate", "licensePlateCountry", "licensePlateCountryId", "chainType",
             "bodyType", "wheelCount"}
      [] type = "TelemetryTrailerWear" -> {"body", "chassis", "wheels"}
      [] type = "TelemetryTrailer" ->
            {"config", "worldPlacement", "localLinearVelocity", "localLinearAcceleration",
             "localAngularVelocity", "localAngularAcceleration", "wear", "connected",
             "cargoDamage", "wheels"}

JobFields ==
    {"cargo", "cargoId", "cargoUnitCount", "cargoMass", "cargoUnitMass", "deliveryTime",
     "plannedDistance", "income", "destinationCity", "destinationCityId", "sourceCity",
     "sourceCityId", "destinationCompany", "destinationCompanyId", "sourceCompany",
     "sourceCompanyId", "jobMarket", "isCargoLoaded", "isSpecialJob", "cargoDamage"}

FrameFields == {"gameTime", "localScale", "multiplayerTimeOffset", "restStop", "paused",
                "truck", "trailer", "job"}

Fields(type) ==
    CASE type = "TelemetryFrame" -> FrameFields
      [] type = "TelemetryTruck" -> TruckFields
      [] type = "TelemetryTruckConfig" -> TruckConfigFields
      [] type = "TelemetryJob" -> JobFields
      [] type \in {"TelemetryTrailer", "TelemetryTrailerConfig", "TelemetryTrailerWear"} ->
            TrailerFields(type)
      [] type \in {"TelemetryVec3D", "TelemetryOrientation", "TelemetryPlacement",
                   "TelemetryWheelConfig", "TelemetryWheel"} -> CommonFields(type)
      [] OTHER -> TruckPartFields(type)

-----------------------------------------------------------------------------
\* The paths to the members of a structure, with their types: of its own members
\* and of those of its parts.
Leaves(type) ==
    {<<<<p[1]>>, p[2]>> : p \in {q \in Struct(type) : q[2] \in Whole}}
    \cup UNION {{<<<<p[1], q[1]>>, q[2]>> : q \in Struct(p[2])} :
                p \in {q \in Struct(type) : q[2] \in Structs \ Whole}}

\* Structures with members that are not serialized.
Incomplete == {type \in Structs : {p[1] : p \in Struct(type)} # Fields(type)}

\* A frame of the client has what the path leads to.
Serialized(type, path) ==
    /\ path[1] \in Fields(type)
    /\ Len(path) = 2 =>
          \E p \in Struct(type) : p[1] = path[1] /\ path[2] \in Fields(p[2])
=============================================================================
